---- MODULE Spec2Model ----
(***************************************************************************)
(* A model of juju_verify/verifiers/ceph.py: the CephTree topology tree    *)
(* (name lookup, ancestor search, the capacity predicate) and the Ceph     *)
(* removal-safety checks (cluster health, replication number).             *)
(*                                                                         *)
(* Conventions.                                                            *)
(*  - A Python call ends either by returning a value or by raising.  Its   *)
(*    outcome is the record [exc, msg, val]: exc = "None" and val = <<v>>  *)
(*    for `return v`; exc = the exception class, msg = a tag of the        *)
(*    message and val = <<>> for `raise`.                                  *)
(*  - Optional[X] is a sequence of length at most one: <<>> is None.       *)
(*  - NodeInfo.children is a sequence of ids; None and [] are both falsy   *)
(*    in the only test the code makes of it (line 178), and are <<>>.      *)
(*  - Python list indices are 0-based; nodes[i] is _nodes[i + 1] here.     *)
(***************************************************************************)
EXTENDS Integers, Sequences, FiniteSets, TLC

VARIABLES
    scenario,        \* which entry point of the module this behaviour drives
    _nodes,          \* CephTree._nodes: the list handed to the constructor (aliased)
    _nodes_name_map, \* CephTree._nodes_name_map: name -> index, built once
    changed,         \* whether the caller changed the list after construction
    search,          \* the call of _find_ancestor or can_remove_host_node under way
    last,            \* the last call made: [op, args, out]
    self_units,      \* BaseVerifier.units of the verifier whose verify_reboot runs
    _ceph_mon_app_map, \* CephOsd._ceph_mon_app_map: None or the map
    _ceph_tree_map,  \* CephOsd._ceph_tree_map: None or the map
    pc,              \* the check verify_reboot is about to invoke
    ceph_version,    \* CephMon.verify_reboot: the local ceph_version
    aggregate,       \* checks_executor: its local `result`
    verdict,         \* what verify_reboot returned: None until it returns
    log              \* the checks invoked so far, with what each ended in

treeVars == <<_nodes, _nodes_name_map, changed, search>>

runVars == <<self_units, _ceph_mon_app_map, _ceph_tree_map, pc, ceph_version,
             aggregate, verdict, log>>

vars == <<scenario, treeVars, last, runVars>>

----------------------------------------------------------------------------
(* Bounds of the model *)

\* the longest request (*names) handed to can_remove_host_node
MaxNames == 2

\* the recursion depth at which the interpreter raises RecursionError
RecursionLimit == 5

\* the most reads of ceph_mon_app_map and ceph_tree_map of one verifier
MaxReads == 3

\* the most monitors whose health one call of check_cluster_health collects
MaxMonitors == 2

\* the most pools a list-pools output holds
MaxPools == 2

----------------------------------------------------------------------------
(* Generic helpers *)

Range(s) == {s[i] : i \in DOMAIN s}

Return(v) == [exc |-> "None", msg |-> "", val |-> <<v>>]

Raise(e, m) == [exc |-> e, msg |-> m, val |-> <<>>]

Returned(out) == out.exc = "None"

\* sum(...) over a list of integers
RECURSIVE SumSeq(_)
SumSeq(s) == IF s = <<>> THEN 0 ELSE Head(s) + SumSeq(Tail(s))

\* all sequences over S of length at most n
SeqsUpTo(S, n) == UNION {[1..k -> S] : k \in 0..n}

----------------------------------------------------------------------------
(* NodeInfo and the CRUSH types *)

CEPH_CRUSH_TYPES ==
    [root |-> 10, region |-> 9, datacenter |-> 8, room |-> 7, pod |-> 6,
     pdu |-> 5, row |-> 4, rack |-> 3, chassis |-> 2, host |-> 1, osd |-> 0]

\* the NamedTuple: type_id is a field of its own, whatever the type
NodeInfo(id, name, type_id, type, kb, kb_used, kb_avail, children) ==
    [id |-> id, name |-> name, type_id |-> type_id, type |-> type,
     kb |-> kb, kb_used |-> kb_used, kb_avail |-> kb_avail, children |-> children]

SUPPORTED_ANCESTOR_TYPES ==
    <<"root", "region", "datacenter", "room", "pod", "pdu", "row", "rack", "chassis">>

----------------------------------------------------------------------------
(* CephTree *)

\* {node.name: index for index, node in enumerate(nodes)}: a later node of the
\* same name overwrites an earlier one; indices are 0-based
BuildNameMap(nodes) ==
    [n \in {nodes[i].name : i \in DOMAIN nodes} |->
        (CHOOSE i \in DOMAIN nodes :
            /\ nodes[i].name = n
            /\ \A j \in DOMAIN nodes : nodes[j].name = n => j <= i) - 1]

\* _get_node without the assertion of line 151
_get_node_unchecked(nodes, name_map, name) ==
    IF name \notin DOMAIN name_map
    THEN Raise("KeyError", "not found")
    ELSE LET index == name_map[name] IN
         IF index + 1 > Len(nodes)
         THEN Raise("ValueError", "_nodes was changed")
         ELSE Return(nodes[index + 1])

\* CephTree._get_node
_get_node(nodes, name_map, name) ==
    IF name \notin DOMAIN name_map
    THEN Raise("KeyError", "not found")
    ELSE LET index == name_map[name] IN
         IF index + 1 > Len(nodes)
         THEN Raise("ValueError", "_nodes was changed")        \* IndexError
         ELSE IF nodes[index + 1].name # name
         THEN Raise("ValueError", "_nodes was changed")        \* AssertionError
         ELSE Return(nodes[index + 1])

\* the first _node of the list with `_node.children and id in _node.children`
\* (0 when the scan of line 177 ends without a hit)
FirstParentIndex(nodes, id) ==
    LET hits == {i \in DOMAIN nodes :
                    nodes[i].children # <<>> /\ id \in Range(nodes[i].children)}
    IN IF hits = {} THEN 0 ELSE CHOOSE i \in hits : \A j \in hits : i <= j

\* _find_ancestor that returns the parent without looking at its type
_find_ancestor_parent(nodes, node, required_type) ==
    LET i == FirstParentIndex(nodes, node.id) IN
    IF i = 0 THEN <<>> ELSE <<nodes[i]>>

\* CephTree._find_ancestor: Optional[NodeInfo]
RECURSIVE _find_ancestor(_, _, _)
_find_ancestor(nodes, node, required_type) ==
    LET i == FirstParentIndex(nodes, node.id) IN
    IF i = 0 THEN <<>>
    ELSE IF nodes[i].type # required_type
         THEN _find_ancestor(nodes, nodes[i], required_type)
         ELSE <<nodes[i]>>

\* a deviation of line 181: the search goes on from the same node
FindAncestorFrameSameNode(nodes, node, required_type) ==
    LET i == FirstParentIndex(nodes, node.id) IN
    IF i = 0 THEN [kind |-> "return", node |-> <<>>]
    ELSE IF nodes[i].type # required_type
         THEN [kind |-> "call", node |-> <<node>>]
         ELSE [kind |-> "return", node |-> <<nodes[i]>>]

\* one frame of _find_ancestor, lines 177-185: it returns None or the
\* parent, or calls itself on the parent
FindAncestorFrame(nodes, node, required_type) ==
    LET i == FirstParentIndex(nodes, node.id) IN
    IF i = 0 THEN [kind |-> "return", node |-> <<>>]
    ELSE IF nodes[i].type # required_type
         THEN [kind |-> "call", node |-> <<nodes[i]>>]
         ELSE [kind |-> "return", node |-> <<nodes[i]>>]

\* the check of line 195 looking only at whether the names are known
RECURSIVE AllKnown(_, _, _)
AllKnown(nodes, name_map, names) ==
    IF names = <<>> THEN Return(TRUE)
    ELSE LET got == _get_node(nodes, name_map, Head(names)) IN
         IF ~Returned(got) THEN got
         ELSE AllKnown(nodes, name_map, Tail(names))

\* line 195: all(self._get_node(name).type == "host" for name in names); the
\* generator stops at the first False and an exception of _get_node propagates
RECURSIVE AllHosts(_, _, _)
AllHosts(nodes, name_map, names) ==
    IF names = <<>> THEN Return(TRUE)
    ELSE LET got == _get_node(nodes, name_map, Head(names)) IN
         IF ~Returned(got) THEN got
         ELSE IF got.val[1].type # "host" THEN Return(FALSE)
         ELSE AllHosts(nodes, name_map, Tail(names))

\* ancestors_map[ancestor].append(descendent): the map is a list of
\* [ancestor, descendents] entries in insertion order
AppendDescendent(amap, ancestor, descendent) ==
    IF \E k \in DOMAIN amap : amap[k].ancestor = ancestor
    THEN [k \in DOMAIN amap |->
            IF amap[k].ancestor = ancestor
            THEN [amap[k] EXCEPT !.descendents = Append(@, descendent)]
            ELSE amap[k]]
    ELSE Append(amap, [ancestor |-> ancestor, descendents |-> <<descendent>>])

\* the loop of lines 201-213 skipping a host without ancestor instead of raising
RECURSIVE FindAncestorsSkipping(_, _, _, _, _)
FindAncestorsSkipping(nodes, name_map, names, required_type, amap) ==
    IF names = <<>> THEN Return(amap)
    ELSE LET got == _get_node(nodes, name_map, Head(names)) IN
         IF ~Returned(got) THEN got
         ELSE LET descendent == got.val[1]
                  ancestor == _find_ancestor(nodes, descendent, required_type)
              IN IF ancestor = <<>>
                 THEN FindAncestorsSkipping(nodes, name_map, Tail(names),
                                            required_type, amap)
                 ELSE FindAncestorsSkipping(nodes, name_map, Tail(names), required_type,
                                    AppendDescendent(amap, ancestor[1], descendent))

\* lines 201-213: the loop that fills ancestors_map
RECURSIVE FindAncestors(_, _, _, _, _)
FindAncestors(nodes, name_map, names, required_type, amap) ==
    IF names = <<>> THEN Return(amap)
    ELSE LET got == _get_node(nodes, name_map, Head(names)) IN
         IF ~Returned(got) THEN got
         ELSE LET descendent == got.val[1]
                  ancestor == _find_ancestor(nodes, descendent, required_type)
              IN IF ancestor = <<>>
                 THEN Raise("ValueError", "ancestor could not be found")
                 ELSE FindAncestors(nodes, name_map, Tail(names), required_type,
                                    AppendDescendent(amap, ancestor[1], descendent))

\* kb_used / kb_avail of a list of nodes
KbUsedOf(descendents) == [k \in DOMAIN descendents |-> descendents[k].kb_used]

KbAvailOf(descendents) == [k \in DOMAIN descendents |-> descendents[k].kb_avail]

\* the test of lines 233-235 with a strict threshold
LackOfSpaceStrict(ancestor, descendents) ==
    (ancestor.kb_avail - SumSeq(KbAvailOf(descendents))) < SumSeq(KbUsedOf(descendents))

\* lines 233-235: the test that makes one group unsafe
LackOfSpace(ancestor, descendents) ==
    (ancestor.kb_avail - SumSeq(KbAvailOf(descendents))) <= SumSeq(KbUsedOf(descendents))

\* lines 216-244: the loop over ancestors_map.items()
RECURSIVE CheckGroups(_)
CheckGroups(amap) ==
    IF amap = <<>> THEN TRUE
    ELSE IF LackOfSpace(Head(amap).ancestor, Head(amap).descendents) THEN FALSE
    ELSE CheckGroups(Tail(amap))

\* the argument check accepting every CRUSH type
AnyCrushType(required_ancestor_type) ==
    required_ancestor_type \in DOMAIN CEPH_CRUSH_TYPES

\* lines 191-192: the argument check
SupportedAncestorType(required_ancestor_type) ==
    required_ancestor_type \in Range(SUPPORTED_ANCESTOR_TYPES)

\* CephTree.can_remove_host_node
can_remove_host_node(nodes, name_map, names, required_ancestor_type) ==
    IF ~SupportedAncestorType(required_ancestor_type)
    THEN Raise("ValueError", "is not supported")
    ELSE LET hosts == AllHosts(nodes, name_map, names) IN
         IF ~Returned(hosts) THEN hosts
         ELSE IF ~hosts.val[1]
         THEN Raise("ValueError", "working only for node type host")
         ELSE LET found == FindAncestors(nodes, name_map, names,
                                         required_ancestor_type, <<>>)
              IN IF ~Returned(found) THEN found
                 ELSE Return(CheckGroups(found.val[1]))

----------------------------------------------------------------------------
(* Result (juju_verify/verifiers/result.py): a Result is its list of         *)
(* partials, each [severity, message].  A message is the record              *)
(* [text, subject, detail, nums, tree]: the words of the f-string, the unit  *)
(* or application it names, the text it quotes, the numbers it prints and    *)
(* the tree it renders.                                                      *)

Message(text, subject, detail, nums) ==
    [text |-> text, subject |-> subject, detail |-> detail, nums |-> nums,
     tree |-> <<>>]

Partial(severity, message) == [severity |-> severity, message |-> message]

\* Result()
EmptyResult == <<>>

\* Result(severity, message)
NewResult(severity, message) == <<Partial(severity, message)>>

\* Result.add_partial_result
add_partial_result(result, severity, message) ==
    Append(result, Partial(severity, message))

\* Result.success: no partial carries FAIL
success(result) == \A i \in DOMAIN result : result[i].severity # "FAIL"

\* bool(result), as in `result or Result(...)`: false when no partial was added
NotEmpty(result) == result # <<>>

\* result + other
Combine(result, other) == result \o other

----------------------------------------------------------------------------
(* CephCommon.check_cluster_health.  A health message is the list of its     *)
(* words; `"HEALTH_OK" in cluster_health` looks for the word in it.          *)

Contains(cluster_health, word) == word \in Range(cluster_health)

\* a deviation of lines 266-286: a warning passes as healthy
HealthPartialWarnPasses(result, unit, cluster_health) ==
    IF (Contains(cluster_health, "HEALTH_OK") /\ success(result))
        \/ Contains(cluster_health, "HEALTH_WARN")
    THEN Partial("OK", Message("Ceph cluster is healthy", unit, <<>>, <<>>))
    ELSE Partial("FAIL", Message("Ceph cluster is unhealthy", unit,
                                 cluster_health, <<>>))

\* lines 266-286: the partial one monitor adds to the result so far
HealthPartial(result, unit, cluster_health) ==
    IF Contains(cluster_health, "HEALTH_OK") /\ success(result)
    THEN Partial("OK", Message("Ceph cluster is healthy", unit, <<>>, <<>>))
    ELSE IF Contains(cluster_health, "HEALTH_WARN")
    THEN Partial("FAIL", Message("Ceph cluster is in a warning state", unit,
                                 cluster_health, <<>>))
    ELSE IF Contains(cluster_health, "HEALTH_ERR")
    THEN Partial("FAIL", Message("Ceph cluster is unhealthy", unit,
                                 cluster_health, <<>>))
    ELSE Partial("FAIL", Message("Ceph cluster is in an unknown state", unit,
                                 cluster_health, <<>>))

\* lines 262-286: the loop over action_map.items(), a list of [unit, message]
RECURSIVE HealthLoop(_, _)
HealthLoop(result, action_map) ==
    IF action_map = <<>> THEN result
    ELSE HealthLoop(
            Append(result, HealthPartial(result, Head(action_map).unit,
                                         Head(action_map).message)),
            Tail(action_map))

\* lines 288-291 left out: the loop's result as it is
HealthAsCollected(result, action_map) == result

\* lines 288-291
HealthOrNoStatus(result, action_map) ==
    IF action_map = <<>>
    THEN NewResult("FAIL", Message("Ceph cluster status could not be obtained",
                                   "", <<>>, <<>>))
    ELSE result

\* CephCommon.check_cluster_health; `fetched` is the outcome of lines 258-260,
\* verify_charm_unit and run_action_on_units: an exception or the action map
check_cluster_health(fetched) ==
    IF ~Returned(fetched) THEN fetched
    ELSE LET action_map == fetched.val[1]
         IN Return(HealthOrNoStatus(HealthLoop(EmptyResult, action_map), action_map))

----------------------------------------------------------------------------
(* CephCommon.get_replication_number and CephOsd.check_replication_number.   *)
(* The output of list-pools is [kind, pools]: kind "list" is a JSON list of  *)
(* objects (each a function from its keys to integers), "number" a JSON      *)
(* number other than 0 and "invalid" text that is no JSON.                   *)

\* pool["size"] - pool["min_size"], KeyError when a key is missing
PoolMargin(pool) ==
    IF "size" \notin DOMAIN pool THEN Raise("KeyError", "size")
    ELSE IF "min_size" \notin DOMAIN pool THEN Raise("KeyError", "min_size")
    ELSE Return(pool["size"] - pool["min_size"])

\* min(...) over the generator of line 315: the first exception ends it
RECURSIVE MinMargin(_, _)
MinMargin(pools, best) ==
    IF pools = <<>> THEN Return(best)
    ELSE LET margin == PoolMargin(Head(pools)) IN
         IF ~Returned(margin) THEN margin
         ELSE MinMargin(Tail(pools),
                        IF best = <<>> \/ margin.val[1] < best[1]
                        THEN margin.val ELSE best)

\* CephCommon.get_replication_number: Optional[int]
get_replication_number(output) ==
    IF output.kind = "invalid" THEN Raise("JSONDecodeError", "list-pools")
    ELSE IF output.kind = "number"
    THEN Raise("TypeError", "object is not iterable")
    ELSE IF output.pools # <<>> THEN MinMargin(output.pools, <<>>)
    ELSE Return(<<>>)

\* lines 465-467: the verified units of the application
UnitsOfApp(units, app_name) ==
    {units[i].entity_id : i \in {j \in DOMAIN units : units[j].application = app_name}}

\* lines 468-472: the units of the application that are not active
InactiveUnitsOfApp(model_units, app_name) ==
    {u.entity_id : u \in {m \in model_units :
        m.application = app_name /\ m.workload_status # "active"}}

\* line 474 counting the two sets one after the other
TooFewReplicasCountedTwice(units, inactive_units, min_replication_number) ==
    Cardinality(units) + Cardinality(inactive_units) > min_replication_number

\* line 474
TooFewReplicas(units, inactive_units, min_replication_number) ==
    Cardinality(units \cup inactive_units) > min_replication_number

\* the partial of lines 475-481
ReplicaPartial(app_name, min_replication_number, units, inactive_units) ==
    Partial("FAIL", Message("The minimum number of replicas", app_name, <<>>,
                            <<min_replication_number, Cardinality(units),
                              Cardinality(inactive_units)>>))

\* the loop of lines 460-481 with no pools counted as a margin of 0 instead of
\* being skipped
RECURSIVE ReplicationLoopNoSkip(_, _, _, _, _)
ReplicationLoopNoSkip(result, mon_app_map, units, model_units, pool_output) ==
    IF mon_app_map = <<>> THEN Return(result)
    ELSE LET app_name == Head(mon_app_map).app_name
             got == get_replication_number(pool_output[Head(mon_app_map).unit])
         IN IF ~Returned(got) THEN got
            ELSE LET min_replication_number ==
                        IF got.val[1] = <<>> THEN 0 ELSE got.val[1][1]
                     verified == UnitsOfApp(units, app_name)
                     inactive_units == InactiveUnitsOfApp(model_units, app_name)
                 IN ReplicationLoopNoSkip(
                        IF TooFewReplicas(verified, inactive_units,
                                          min_replication_number)
                        THEN Append(result, ReplicaPartial(app_name,
                                min_replication_number, verified, inactive_units))
                        ELSE result,
                        Tail(mon_app_map), units, model_units, pool_output)

\* lines 460-481: the loop over ceph_mon_app_map.items(), a list of
\* [app_name, unit] entries; pool_output[unit] is the unit's list-pools output
RECURSIVE ReplicationLoop(_, _, _, _, _)
ReplicationLoop(result, mon_app_map, units, model_units, pool_output) ==
    IF mon_app_map = <<>> THEN Return(result)
    ELSE LET app_name == Head(mon_app_map).app_name
             got == get_replication_number(pool_output[Head(mon_app_map).unit])
         IN IF ~Returned(got) THEN got
            ELSE IF got.val[1] = <<>>
            THEN ReplicationLoop(result, Tail(mon_app_map), units, model_units,
                                 pool_output)
            ELSE LET min_replication_number == got.val[1][1]
                     verified == UnitsOfApp(units, app_name)
                     inactive_units == InactiveUnitsOfApp(model_units, app_name)
                 IN ReplicationLoop(
                        IF TooFewReplicas(verified, inactive_units,
                                          min_replication_number)
                        THEN Append(result, ReplicaPartial(app_name,
                                min_replication_number, verified, inactive_units))
                        ELSE result,
                        Tail(mon_app_map), units, model_units, pool_output)

\* line 483: result or Result(Severity.OK, ...)
OrPassed(result, text) ==
    IF NotEmpty(result) THEN result
    ELSE NewResult("OK", Message(text, "", <<>>, <<>>))

\* CephOsd.check_replication_number
check_replication_number(mon_app_map, units, model_units, pool_output) ==
    LET looped == ReplicationLoop(EmptyResult, mon_app_map, units, model_units,
                                  pool_output)
    IN IF ~Returned(looped) THEN looped
       ELSE Return(OrPassed(looped.val[1], "Minimum replica number check passed."))

----------------------------------------------------------------------------
(* CephOsd: the two memoised maps and check_availability_zone.  A map is a   *)
(* list of entries in dict order.                                            *)

REPLICATION_RULE == "host"

\* a deviation of lines 400-403: the replication rule is the ancestor kind
AncestorNodeTypeSame(replication_rule) == replication_rule

\* lines 400-405: "root" for the rule "host", the rule itself otherwise
AncestorNodeTypeOf(replication_rule) ==
    IF replication_rule = "host" THEN "root" ELSE replication_rule

\* CephOsd.ancestor_node_type
ancestor_node_type == AncestorNodeTypeOf(REPLICATION_RULE)

\* a deviation of line 373: an empty map counts as not yet built
BuildsMonAppMapWhenEmpty(mon_cache) ==
    mon_cache = <<>> \/ mon_cache[1] = <<>>

\* line 373: if self._ceph_mon_app_map is None
BuildsMonAppMap(mon_cache) == mon_cache = <<>>

\* a deviation of line 383: the tree map is built at every read
BuildsTreeMapAlways(tree_cache) == TRUE

\* line 383: if self._ceph_tree_map is None
BuildsTreeMap(tree_cache) == tree_cache = <<>>

\* CephOsd.ceph_mon_app_map: `built` is what _get_ceph_mon_app_map ends in if
\* it is called now; [out, mon_cache]: the outcome of the read and the field
ceph_mon_app_map(mon_cache, built) ==
    IF BuildsMonAppMap(mon_cache)
    THEN IF Returned(built)
         THEN [out |-> built, mon_cache |-> built.val]
         ELSE [out |-> built, mon_cache |-> <<>>]
    ELSE [out |-> Return(mon_cache[1]), mon_cache |-> mon_cache]

\* CephOsd._get_ceph_tree_map: disk_output[unit] is what get_disk_utilization
\* ends in for the unit; the first exception ends the comprehension
RECURSIVE BuildTreeMap(_, _, _)
BuildTreeMap(mon_app_map, disk_output, tree_map) ==
    IF mon_app_map = <<>> THEN Return(tree_map)
    ELSE LET got == disk_output[Head(mon_app_map).unit] IN
         IF ~Returned(got) THEN got
         ELSE BuildTreeMap(Tail(mon_app_map), disk_output,
                Append(tree_map, [app_name |-> Head(mon_app_map).app_name,
                                  nodes |-> got.val[1],
                                  name_map |-> BuildNameMap(got.val[1])]))

\* CephOsd.ceph_tree_map: [out, tree_cache, mon_cache]
ceph_tree_map(tree_cache, mon_cache, built, disk_output) ==
    IF BuildsTreeMap(tree_cache)
    THEN LET mon == ceph_mon_app_map(mon_cache, built) IN
         IF ~Returned(mon.out)
         THEN [out |-> mon.out, tree_cache |-> <<>>, mon_cache |-> mon.mon_cache]
         ELSE LET trees == BuildTreeMap(mon.out.val[1], disk_output, <<>>) IN
              IF Returned(trees)
              THEN [out |-> trees, tree_cache |-> trees.val,
                    mon_cache |-> mon.mon_cache]
              ELSE [out |-> trees, tree_cache |-> <<>>, mon_cache |-> mon.mon_cache]
    ELSE [out |-> Return(tree_cache[1]), tree_cache |-> tree_cache,
          mon_cache |-> mon_cache]

\* sorted(self._nodes, key=lambda node: node.type_id, reverse=True): every
\* node, the highest type_id first; sorted() is stable, so nodes of the same
\* type_id keep their order
RECURSIVE NodesByTypeId(_)
NodesByTypeId(nodes) ==
    IF nodes = <<>> THEN <<>>
    ELSE LET highest == CHOOSE t \in {nodes[i].type_id : i \in DOMAIN nodes} :
                            \A i \in DOMAIN nodes : nodes[i].type_id <= t
         IN SelectSeq(nodes, LAMBDA n : n.type_id = highest)
            \o NodesByTypeId(SelectSeq(nodes, LAMBDA n : n.type_id # highest))

\* CephTree.__str__: each node as <<type_id, name, id>> for
\* f"{type_id}-{name}({id})"
TreeStr(nodes) ==
    LET sorted == NodesByTypeId(nodes)
    IN [k \in DOMAIN sorted |-> <<sorted[k].type_id, sorted[k].name, sorted[k].id>>]

\* lines 493-497: {unit.entity_id: unit.machine.hostname ...} as a list of
\* the verified units of the application
UnitsToRemove(verified, app_name) ==
    SelectSeq(verified, LAMBDA u : u.application = app_name)

\* lines 491-507: the loop over ceph_tree_map.items()
RECURSIVE AvailabilityLoop(_, _, _)
AvailabilityLoop(res, tree_map, verified) ==
    IF tree_map = <<>> THEN Return(res)
    ELSE LET tree == Head(tree_map)
             removed == UnitsToRemove(verified, tree.app_name)
             hostnames == [k \in DOMAIN removed |-> removed[k].hostname]
             can == can_remove_host_node(tree.nodes, tree.name_map, hostnames,
                                         ancestor_node_type)
         IN IF ~Returned(can) THEN can
            ELSE AvailabilityLoop(
                    IF ~can.val[1]
                    THEN Combine(res, NewResult("FAIL",
                            [text |-> "It's not safe to reboot/shutdown unit(s)",
                             subject |-> "",
                             detail |-> [k \in DOMAIN removed |-> removed[k].entity_id],
                             nums |-> <<>>,
                             tree |-> TreeStr(tree.nodes)]))
                    ELSE res,
                    Tail(tree_map), verified)

\* CephOsd.check_availability_zone, given the tree map it read
check_availability_zone(tree_map, verified) ==
    LET looped == AvailabilityLoop(EmptyResult, tree_map, verified)
    IN IF ~Returned(looped) THEN looped
       ELSE Return(OrPassed(looped.val[1], "Availability zone check passed."))

----------------------------------------------------------------------------
(* CephMon: _parse_quorum_status and check_quorum.  The output of            *)
(* get-quorum-status is [kind, mons_json, mons, quorum_names_json,           *)
(* quorum_names].  Kind "status" is an object with monmap.mons and           *)
(* quorum_names; mons_json and quorum_names_json are the JSON types of the   *)
(* two values and mons and quorum_names what iterating them yields: of an    *)
(* array of objects the names (mons) or the elements (quorum_names), of an   *)
(* object its keys, of a string its characters, of a number or null nothing. *)
(* The other kinds are what json.loads or the key lookups of lines 535-537   *)
(* fail on.                                                                  *)

\* line 536: iterating a number or null raises TypeError, and so does
\* mon["name"] when mon is a key of an object or a character of a string
KnowMonsRaises(output) ==
    \/ output.mons_json \in {"number", "null"}
    \/ output.mons_json \in {"object", "string"} /\ output.mons # <<>>

\* line 537: set() of a number or null raises TypeError; of a string it is
\* the set of its characters and of an object the set of its keys
OnlineMonsRaises(output) == output.quorum_names_json \in {"number", "null"}

\* CephMon._parse_quorum_status: (len(know_mons), online_mons)
_parse_quorum_status(output) ==
    CASE output.kind = "status" ->
            IF KnowMonsRaises(output) \/ OnlineMonsRaises(output)
            THEN Raise("TypeError", "get-quorum-status")
            ELSE Return([mon_count |-> IF output.mons_json = "array"
                                       THEN Cardinality(Range(output.mons))
                                       ELSE 0,
                         online_mons |-> Range(output.quorum_names)])
      [] output.kind = "invalid" -> Raise("JSONDecodeError", "get-quorum-status")
      [] output.kind = "no monmap" -> Raise("KeyError", "monmap")
      [] output.kind = "no mons" -> Raise("KeyError", "mons")
      [] output.kind = "no name" -> Raise("KeyError", "name")
      [] output.kind = "no quorum_names" -> Raise("KeyError", "quorum_names")
      \* "not an object": a number, null, a string or an array cannot be
      \* subscripted with "monmap"
      [] OTHER -> Raise("TypeError", "get-quorum-status")

\* a deviation of line 562: the half itself keeps the quorum
LosesQuorumStrict(mons_after_change, mon_count) ==
    mons_after_change < mon_count \div 2

\* line 562: mons_after_change <= mon_count // 2
LosesQuorum(mons_after_change, mon_count) ==
    mons_after_change <= mon_count \div 2

\* lines 556-577: the loop over action_results.items(), a list of
\* [unit, action, output] entries; TypeError is not among the exceptions caught
RECURSIVE QuorumLoop(_, _, _)
QuorumLoop(res, action_results, affected_hosts) ==
    IF action_results = <<>> THEN Return(res)
    ELSE LET unit_id == Head(action_results).unit
             parsed == _parse_quorum_status(Head(action_results).output)
         IN IF parsed.exc \in {"JSONDecodeError", "KeyError"}
            THEN QuorumLoop(
                    add_partial_result(res, "FAIL",
                        Message("Failed to parse quorum status from action",
                                Head(action_results).action, <<>>, <<>>)),
                    Tail(action_results), affected_hosts)
            ELSE IF ~Returned(parsed) THEN parsed
            ELSE LET mon_count == parsed.val[1].mon_count
                     mons_after_change ==
                        Cardinality(parsed.val[1].online_mons \ affected_hosts)
                 IN QuorumLoop(
                        IF LosesQuorum(mons_after_change, mon_count)
                        THEN add_partial_result(res, "FAIL",
                                Message("will lose ceph-mon quorum", unit_id, <<>>, <<>>))
                        ELSE res,
                        Tail(action_results), affected_hosts)

\* CephMon.check_quorum; `fetched` is the outcome of run_action_on_all
check_quorum(fetched, verified) ==
    IF ~Returned(fetched) THEN fetched
    ELSE LET affected_hosts == {verified[k].hostname : k \in DOMAIN verified}
             looped == QuorumLoop(EmptyResult, fetched.val[1], affected_hosts)
         IN IF ~Returned(looped) THEN looped
            ELSE Return(OrPassed(looped.val[1], "Ceph-mon quorum check passed."))

\* lines 543-544: {unit.application: unit for unit in self.units}.values():
\* one unit per application, the last of the list
UniqueAppUnits(verified) ==
    LET lasts == SelectSeq(verified, LAMBDA u :
                    \E k \in DOMAIN verified :
                        /\ verified[k] = u
                        /\ \A j \in DOMAIN verified :
                            verified[j].application = u.application => j <= k)
    IN {lasts[k].entity_id : k \in DOMAIN lasts}

----------------------------------------------------------------------------
(* checks_executor (juju_verify/verifiers/result.py): one step of its loop.  *)
(* The Result of a check is added to the result so far; an exception of the  *)
(* check becomes a FAIL partial naming the check and the error.              *)

ExecutorStep(res, check, out) ==
    IF Returned(out) THEN Combine(res, out.val[1])
    ELSE add_partial_result(res, "FAIL",
            Message("check failed with error", check, <<out.exc, out.msg>>, <<>>))

----------------------------------------------------------------------------
(* The trees the model builds: root(-1), rack.0(-2), rack.1(-3), host.0(-4), *)
(* host.1(-5), host.2(-6), osd.0(0), each under a parent chosen at          *)
(* construction ("" = no parent), so that every tree is a forest.           *)

NodeNames == <<"root", "rack.0", "rack.1", "host.0", "host.1", "host.2", "osd.0">>

NodeId == [n \in Range(NodeNames) |->
    CASE n = "root" -> -1 [] n = "rack.0" -> -2 [] n = "rack.1" -> -3
      [] n = "host.0" -> -4 [] n = "host.1" -> -5 [] n = "host.2" -> -6
      [] OTHER -> 0]

NodeType == [n \in Range(NodeNames) |->
    CASE n = "root" -> "root" [] n \in {"rack.0", "rack.1"} -> "rack"
      [] n \in {"host.0", "host.1", "host.2"} -> "host" [] OTHER -> "osd"]

\* the kb_used each node reports
KbUsed == [n \in Range(NodeNames) |->
    CASE n = "root" -> 500 [] n = "rack.0" -> 200 [] n = "rack.1" -> 300
      [] n \in {"host.0", "host.1"} -> 100 [] n = "host.2" -> 300
      [] OTHER -> 100]

\* node["type_id"] of show-disk-free in a cluster with the default CRUSH types
NodeTypeId == [n \in Range(NodeNames) |-> CEPH_CRUSH_TYPES[NodeType[n]]]

\* the ids of the nodes whose parent is `name`, in list order
ChildrenOf(parent, name) ==
    LET kids == SelectSeq(NodeNames, LAMBDA c : parent[c] = name)
    IN [k \in DOMAIN kids |-> NodeId[kids[k]]]

BuildNodes(parent, avail) ==
    [i \in DOMAIN NodeNames |->
        LET n == NodeNames[i] IN
        NodeInfo(NodeId[n], n, NodeTypeId[n], NodeType[n],
                 KbUsed[n] + avail[n], KbUsed[n],
                 avail[n], ChildrenOf(parent, n))]

\* the parent of every node, given the parents of the four nodes that vary;
\* host.0 is under rack.0 and osd.0 under host.0 in every tree
Parents(rack0, rack1, host1, host2) == [n \in Range(NodeNames) |->
    CASE n = "root" -> "" [] n = "rack.0" -> rack0 [] n = "rack.1" -> rack1
      [] n = "host.0" -> "rack.0" [] n = "host.1" -> host1 [] n = "host.2" -> host2
      [] OTHER -> "host.0"]

\* the kb_avail of every node, given those of the three ancestors that vary
Avails(root, rack0, rack1) == [n \in Range(NodeNames) |->
    CASE n = "root" -> root [] n = "rack.0" -> rack0 [] n = "rack.1" -> rack1
      [] n = "host.2" -> 700 [] OTHER -> 400]

AncestorKbAvail == {1000, 1001}

TreesWith(avails) ==
    {BuildNodes(Parents(rack0, rack1, host1, host2), avail) :
        rack0 \in {"root", ""}, rack1 \in {"root", "rack.0"},
        host1 \in {"rack.0", ""}, host2 \in {"rack.1", "rack.0", ""},
        avail \in avails}

Trees ==
    TreesWith({Avails(root, rack0, rack1) :
        root \in AncestorKbAvail, rack0 \in AncestorKbAvail, rack1 \in AncestorKbAvail})

\* the lists whose caller keeps a reference and changes them after construction
AliasedTrees == TreesWith({Avails(1000, 1000, 1000)})

\* the names and ancestor types the calls are made with
RequestNames == {"host.0", "host.1", "host.2", "rack.0", "osd.0", "host.9"}

RequestTypes == {"root", "rack", "host", "zone"}

NoCall == [op |-> "none", args |-> <<>>, out |-> Return(TRUE)]

\* no call is under way
NoSearch ==
    [op |-> "none", status |-> "idle", names |-> <<>>, todo |-> <<>>, start |-> <<>>,
     node |-> <<>>, required_type |-> "", steps |-> 0, amap |-> <<>>,
     out |-> <<>>]

----------------------------------------------------------------------------
(* Init: CephTree.__init__ *)

\* no verifier runs in the behaviours that call the tree or a check alone
NoRun ==
    /\ self_units = <<>>
    /\ _ceph_mon_app_map = <<>> /\ _ceph_tree_map = <<>>
    /\ pc = "none"
    /\ ceph_version = <<>> /\ aggregate = <<>> /\ verdict = <<>> /\ log = <<>>

InitTree ==
    /\ scenario = "tree"
    /\ _nodes \in Trees
    /\ _nodes_name_map = BuildNameMap(_nodes)
    /\ changed = FALSE
    /\ search = NoSearch
    /\ last = NoCall
    /\ NoRun

\* no tree is built in the behaviours that drive the checks
NoTree ==
    /\ _nodes = <<>>
    /\ _nodes_name_map = BuildNameMap(<<>>)
    /\ changed = FALSE
    /\ search = NoSearch

InitHealth == scenario = "health" /\ NoTree /\ last = NoCall /\ NoRun

InitReplication == scenario = "replication" /\ NoTree /\ last = NoCall /\ NoRun

----------------------------------------------------------------------------
(* The caller changes the list it handed to the constructor: self._nodes is *)
(* that same list (line 123), the name map is not rebuilt.                  *)

\* nodes.pop()
NodesPop ==
    /\ scenario = "tree" /\ last.op = "none" /\ ~changed
    /\ _nodes \in AliasedTrees
    /\ _nodes # <<>>
    /\ _nodes' = SubSeq(_nodes, 1, Len(_nodes) - 1)
    /\ changed' = TRUE
    /\ UNCHANGED <<scenario, _nodes_name_map, search, last, runVars>>

\* del nodes[0]
NodesDelFirst ==
    /\ scenario = "tree" /\ last.op = "none" /\ ~changed
    /\ _nodes \in AliasedTrees
    /\ _nodes # <<>>
    /\ _nodes' = Tail(_nodes)
    /\ changed' = TRUE
    /\ UNCHANGED <<scenario, _nodes_name_map, search, last, runVars>>

\* nodes.reverse()
NodesReverse ==
    /\ scenario = "tree" /\ last.op = "none" /\ ~changed
    /\ _nodes \in AliasedTrees
    /\ _nodes' = [i \in DOMAIN _nodes |-> _nodes[Len(_nodes) + 1 - i]]
    /\ changed' = TRUE
    /\ UNCHANGED <<scenario, _nodes_name_map, search, last, runVars>>

----------------------------------------------------------------------------
(* Calls on the tree *)

CallGetNode ==
    /\ scenario = "tree" /\ last.op = "none"
    /\ \E name \in RequestNames \cup Range(NodeNames) :
        last' = [op |-> "_get_node", args |-> <<name>>,
                 out |-> _get_node(_nodes, _nodes_name_map, name)]
    /\ UNCHANGED <<scenario, treeVars, runVars>>

CallFindAncestor ==
    /\ scenario = "tree" /\ last.op = "none"
    /\ \E i \in DOMAIN _nodes, required_type \in RequestTypes :
        last' = [op |-> "_find_ancestor", args |-> <<_nodes[i], required_type>>,
                 out |-> Return(_find_ancestor(_nodes, _nodes[i], required_type))]
    /\ UNCHANGED <<scenario, treeVars, runVars>>

CallCanRemoveHostNode ==
    /\ scenario = "tree" /\ last.op = "none"
    /\ \E names \in SeqsUpTo(RequestNames, MaxNames), required_type \in RequestTypes :
        last' = [op |-> "can_remove_host_node", args |-> <<names, required_type>>,
                 out |-> can_remove_host_node(_nodes, _nodes_name_map, names,
                                              required_type)]
    /\ UNCHANGED <<scenario, treeVars, runVars>>

----------------------------------------------------------------------------
(* The inputs of check_cluster_health *)

MonUnits == {"ceph-mon/0", "ceph-mon/1", "ceph-mon/2"}

HealthMessages ==
    {<<"HEALTH_OK">>,
     <<"HEALTH_WARN", "noout flag(s) set">>,
     <<"HEALTH_ERR", "1 full osd(s)">>,
     <<"HEALTH_CRIT">>,
     <<"HEALTH_OK", "HEALTH_WARN">>,
     <<>>}

\* the action maps of at most n monitors: dict keys are distinct
ActionMaps(n) ==
    {am \in SeqsUpTo([unit : MonUnits, message : HealthMessages], n) :
        \A i, j \in DOMAIN am : am[i].unit = am[j].unit => i = j}

\* lines 258-260 raise CharmException or deliver the action map
HealthFetches(n) ==
    {Raise("CharmException", "get-health")} \cup {Return(am) : am \in ActionMaps(n)}

CallCheckClusterHealth ==
    /\ scenario = "health" /\ last.op = "none"
    /\ \E fetched \in HealthFetches(MaxMonitors) :
        last' = [op |-> "check_cluster_health", args |-> <<fetched>>,
                 out |-> check_cluster_health(fetched)]
    /\ UNCHANGED <<scenario, treeVars, runVars>>

----------------------------------------------------------------------------
(* The inputs of check_replication_number: the ceph-osd units of two         *)
(* applications, each application related to its own ceph-mon unit.          *)

OsdUnitList == <<"ceph-osd/0", "ceph-osd/1", "ceph-osd-b/0">>

ApplicationOf == [u \in Range(OsdUnitList) |->
    IF u = "ceph-osd-b/0" THEN "ceph-osd-b" ELSE "ceph-osd"]

HostnameOf == [u \in Range(OsdUnitList) |->
    CASE u = "ceph-osd/0" -> "host.0" [] u = "ceph-osd/1" -> "host.1"
      [] OTHER -> "host.2"]

MonUnitOf == [a \in {"ceph-osd", "ceph-osd-b"} |->
    IF a = "ceph-osd" THEN "ceph-mon/0" ELSE "ceph-mon/2"]

\* self.units for the verified subset S, in list order
UnitsList(S) ==
    LET ids == SelectSeq(OsdUnitList, LAMBDA u : u \in S)
    IN [k \in DOMAIN ids |->
            [entity_id |-> ids[k], application |-> ApplicationOf[ids[k]],
             hostname |-> HostnameOf[ids[k]]]]

\* model.applications[...].units, the units in `inactive` not being active
ModelUnits(inactive) ==
    {[entity_id |-> u, application |-> ApplicationOf[u],
      workload_status |-> IF u \in inactive THEN "blocked" ELSE "active"] :
        u \in Range(OsdUnitList)}

\* the ceph-osd -> ceph-mon maps of the applications of S: lines 446-449 build
\* the dict from a set, in either order
MonAppMaps(S) ==
    LET apps == {ApplicationOf[u] : u \in S}
    IN {m \in SeqsUpTo([app_name : apps, unit : MonUnits], 2) :
            /\ Len(m) = Cardinality(apps)
            /\ \A i \in DOMAIN m : m[i].unit = MonUnitOf[m[i].app_name]
            /\ \A i, j \in DOMAIN m : m[i].app_name = m[j].app_name => i = j}

Pools == {[size |-> 3, min_size |-> 2], [size |-> 3, min_size |-> 1],
          [size |-> 2, min_size |-> 2]}

PoolList(pools) == [kind |-> "list", pools |-> pools]

\* list-pools outputs: lists of at most n pools, and malformed ones
PoolOutputs(n) ==
    {PoolList(ps) : ps \in SeqsUpTo(Pools, n)}
    \cup {[kind |-> "invalid", pools |-> <<>>], [kind |-> "number", pools |-> <<>>],
          PoolList(<<[size |-> 3, min_size |-> 2], [size |-> 3]>>)}

FewPoolOutputs ==
    {PoolList(<<>>), PoolList(<<[size |-> 3, min_size |-> 2]>>),
     PoolList(<<[size |-> 2, min_size |-> 2]>>), [kind |-> "invalid", pools |-> <<>>]}

\* ceph-mon/0 reports any of the outputs, the other units a few of them
PoolOutputMaps(n) ==
    {[u \in MonUnits |-> IF u = "ceph-mon/0" THEN o0 ELSE o1] :
        o0 \in PoolOutputs(n), o1 \in FewPoolOutputs}

CallCheckReplicationNumber ==
    /\ scenario = "replication" /\ last.op = "none"
    /\ \E S \in SUBSET Range(OsdUnitList), inactive \in SUBSET Range(OsdUnitList) :
        \E mon_app_map \in MonAppMaps(S), pool_output \in PoolOutputMaps(MaxPools) :
            /\ ("ceph-osd-b/0" \notin S) => pool_output["ceph-mon/2"] = PoolList(<<>>)
            /\ last' = [op |-> "check_replication_number",
                        args |-> <<mon_app_map, UnitsList(S), ModelUnits(inactive),
                                   pool_output>>,
                        out |-> check_replication_number(mon_app_map, UnitsList(S),
                                    ModelUnits(inactive), pool_output)]
    /\ UNCHANGED <<scenario, treeVars, runVars>>

----------------------------------------------------------------------------
(* CephOsd.verify_reboot: checks_executor over check_ceph_cluster_health,    *)
(* check_replication_number and check_availability_zone, one action each.    *)
(* What the ceph-mon units answer is drawn when a check asks for it.         *)

\* a deviation of lines 513-517: the capacity check before the replication one
OsdChecksSwapped ==
    <<"check_ceph_cluster_health", "check_availability_zone",
      "check_replication_number">>

\* lines 513-517: the checks handed to checks_executor, in this order
OsdChecks ==
    <<"check_ceph_cluster_health", "check_replication_number",
      "check_availability_zone">>

\* the loop of checks_executor: the check after `check`, "done" after the last
AfterCheck(checks, check) ==
    LET k == CHOOSE i \in DOMAIN checks : checks[i] = check
    IN IF k = Len(checks) THEN "done" ELSE checks[k + 1]

OsdUnitCases ==
    {{}, {"ceph-osd/0"}, {"ceph-osd/0", "ceph-osd/1"}, {"ceph-osd/0", "ceph-osd-b/0"}}

InitOsd ==
    /\ scenario = "osd" /\ NoTree /\ last = NoCall
    /\ self_units \in {UnitsList(S) : S \in OsdUnitCases}
    /\ _ceph_mon_app_map = <<>> /\ _ceph_tree_map = <<>>
    /\ pc = Head(OsdChecks)
    /\ ceph_version = <<>> /\ aggregate = EmptyResult /\ verdict = <<>> /\ log = <<>>

\* what _get_ceph_mon_app_map ends in whenever it is called
FreshMonAppMaps ==
    {Raise("CharmException", "No active unit")}
    \cup {Return(m) : m \in MonAppMaps({self_units[k].entity_id :
                                            k \in DOMAIN self_units})}

\* what _get_ceph_mon_app_map ends in when the property calls it: lines
\* 416-436 raise CharmException, or every application gets its ceph-mon unit
BuiltMonAppMaps ==
    IF _ceph_mon_app_map = <<>>
    THEN FreshMonAppMaps
    ELSE {Return(_ceph_mon_app_map[1])}

RunHealthMessages == {<<"HEALTH_OK">>, <<"HEALTH_WARN", "noout flag(s) set">>}

\* what lines 258-260 end in for the given ceph-mon units
RunHealthFetches(mons) ==
    {Raise("CharmException", "get-health")}
    \cup {Return(am) : am \in
            {m \in SeqsUpTo([unit : mons, message : RunHealthMessages],
                            Cardinality(mons)) :
                \A i, j \in DOMAIN m : m[i].unit = m[j].unit => i = j}}

\* the monitors that delivered a status
Reached(fetched) == IF Returned(fetched) THEN Len(fetched.val[1]) ELSE 0

\* one turn of the loop of checks_executor in CephOsd.verify_reboot
OsdStep(check, out, reached, mon_cache, tree_cache, next) ==
    /\ aggregate' = ExecutorStep(aggregate, check, out)
    /\ log' = Append(log, [check |-> check, out |-> out, reached |-> reached])
    /\ _ceph_mon_app_map' = mon_cache
    /\ _ceph_tree_map' = tree_cache
    /\ pc' = next
    /\ verdict' = IF next = "done" THEN <<aggregate'>> ELSE <<>>
    /\ UNCHANGED <<scenario, treeVars, last, self_units, ceph_version>>

\* CephOsd.check_ceph_cluster_health, as invoked by checks_executor
OsdCheckClusterHealth ==
    /\ scenario = "osd" /\ pc = "check_ceph_cluster_health"
    /\ \E built \in BuiltMonAppMaps :
        LET mon == ceph_mon_app_map(_ceph_mon_app_map, built) IN
        IF ~Returned(mon.out)
        THEN OsdStep("check_ceph_cluster_health", mon.out, 0, mon.mon_cache,
                     _ceph_tree_map, AfterCheck(OsdChecks, "check_ceph_cluster_health"))
        ELSE \E fetched \in RunHealthFetches(
                    {mon.out.val[1][k].unit : k \in DOMAIN mon.out.val[1]}) :
                OsdStep("check_ceph_cluster_health", check_cluster_health(fetched),
                        Reached(fetched), mon.mon_cache, _ceph_tree_map,
                        AfterCheck(OsdChecks, "check_ceph_cluster_health"))

RunPoolOutputMaps ==
    {[u \in MonUnits |-> o] :
        o \in {PoolList(<<>>), PoolList(<<[size |-> 3, min_size |-> 2]>>),
               [kind |-> "invalid", pools |-> <<>>]}}

\* CephOsd.check_replication_number, as invoked by checks_executor
OsdCheckReplicationNumber ==
    /\ scenario = "osd" /\ pc = "check_replication_number"
    /\ \E built \in BuiltMonAppMaps :
        LET mon == ceph_mon_app_map(_ceph_mon_app_map, built) IN
        IF ~Returned(mon.out)
        THEN OsdStep("check_replication_number", mon.out, 0, mon.mon_cache,
                     _ceph_tree_map, AfterCheck(OsdChecks, "check_replication_number"))
        ELSE \E inactive \in {{}, {"ceph-osd/1"}}, pool_output \in RunPoolOutputMaps :
                OsdStep("check_replication_number",
                        check_replication_number(mon.out.val[1], self_units,
                            ModelUnits(inactive), pool_output),
                        0, mon.mon_cache, _ceph_tree_map,
                        AfterCheck(OsdChecks, "check_replication_number"))

\* the trees show-disk-free reports in a run: every host under a rack under
\* the root, with a root of kb_avail 1000 or 1001, or rack.0 under no root,
\* or the tree of a cluster that does not list host.0
RunTrees ==
    {BuildNodes(Parents("root", "root", "rack.0", "rack.1"), Avails(1000, 1000, 1000)),
     BuildNodes(Parents("root", "root", "rack.0", "rack.1"), Avails(1001, 1000, 1000)),
     BuildNodes(Parents("", "root", "rack.0", "rack.1"), Avails(1000, 1000, 1000)),
     SelectSeq(BuildNodes(Parents("root", "root", "rack.0", "rack.1"),
                          Avails(1000, 1000, 1000)),
               LAMBDA n : n.name # "host.0")}

\* line 340, type_id=node["type_id"]: a cluster whose CRUSH map numbers its
\* types otherwise reports the root as 11 and the racks as -1
OtherTypeIds(nodes) ==
    [i \in DOMAIN nodes |->
        LET node == nodes[i] IN
        NodeInfo(node.id, node.name,
                 CASE node.type = "root" -> 11 [] node.type = "rack" -> -1
                   [] OTHER -> node.type_id,
                 node.type, node.kb, node.kb_used, node.kb_avail, node.children)]

\* the tree of such a cluster, the nodes listed from the osd up to the root
OtherTypeIdsTree ==
    LET nodes == OtherTypeIds(BuildNodes(Parents("root", "root", "rack.0", "rack.1"),
                                         Avails(1000, 1000, 1000)))
    IN [i \in DOMAIN nodes |-> nodes[Len(nodes) + 1 - i]]

\* what get_disk_utilization ends in: osd_tree["nodes"] fails on the default
\* output "{}", or the nodes are delivered
RunDiskOutputs ==
    {[u \in MonUnits |-> IF u = "ceph-mon/0" THEN o0 ELSE o1] :
        o0 \in {Raise("KeyError", "nodes")} \cup {Return(t) : t \in RunTrees},
        o1 \in {Raise("KeyError", "nodes")} \cup {Return(t) : t \in RunTrees}}

\* CephOsd.check_availability_zone, as invoked by checks_executor
OsdCheckAvailabilityZone ==
    /\ scenario = "osd" /\ pc = "check_availability_zone"
    /\ \E built \in BuiltMonAppMaps, disk_output \in RunDiskOutputs :
        LET read == ceph_tree_map(_ceph_tree_map, _ceph_mon_app_map, built,
                                  disk_output)
        IN OsdStep("check_availability_zone",
                   IF ~Returned(read.out) THEN read.out
                   ELSE check_availability_zone(read.out.val[1], self_units),
                   0, read.mon_cache, read.tree_cache,
                   AfterCheck(OsdChecks, "check_availability_zone"))

----------------------------------------------------------------------------
(* CephMon.verify_reboot: checks_executor(check_version), then, when that    *)
(* succeeded, checks_executor(check_quorum, check_ceph_cluster_health).      *)

MonUnitList == <<"ceph-mon/0", "ceph-mon/1", "ceph-mon/2">>

MonApplicationOf == [u \in MonUnits |->
    IF u = "ceph-mon/2" THEN "ceph-mon-b" ELSE "ceph-mon"]

MonHostnameOf == [u \in MonUnits |->
    CASE u = "ceph-mon/0" -> "mon.0" [] u = "ceph-mon/1" -> "mon.1"
      [] OTHER -> "mon.2"]

MonUnitsList(S) ==
    LET ids == SelectSeq(MonUnitList, LAMBDA u : u \in S)
    IN [k \in DOMAIN ids |->
            [entity_id |-> ids[k], application |-> MonApplicationOf[ids[k]],
             hostname |-> MonHostnameOf[ids[k]]]]

MonUnitCases ==
    {{}, {"ceph-mon/0"}, {"ceph-mon/0", "ceph-mon/1"}, {"ceph-mon/0", "ceph-mon/2"}}

InitMon ==
    /\ scenario = "mon" /\ NoTree /\ last = NoCall
    /\ self_units \in {MonUnitsList(S) : S \in MonUnitCases}
    /\ _ceph_mon_app_map = <<>> /\ _ceph_tree_map = <<>>
    /\ pc = "check_version"
    /\ ceph_version = <<>> /\ aggregate = EmptyResult /\ verdict = <<>> /\ log = <<>>

\* what BaseVerifier.check_minimum_version ends in
VersionOutcomes ==
    {Return(NewResult("OK", Message("Minimum juju version check passed.", "",
                                    <<>>, <<>>))),
     Return(NewResult("FAIL", Message("Juju agent is lower than", "", <<>>, <<>>))),
     Raise("CharmException", "check_minimum_version")}

\* a deviation of line 592: the checks go on whatever the gate said
GateNeverStops(gate) == FALSE

\* line 592: if not ceph_version.success
GateStops(gate) == ~success(gate)

\* line 595: ceph_version + checks_executor(...)
MonVerdict(gate, rest) == Combine(gate, rest)

\* lines 591-593: the version gate
MonCheckVersion ==
    /\ scenario = "mon" /\ pc = "check_version"
    /\ \E out \in VersionOutcomes :
        LET gate == ExecutorStep(EmptyResult, "check_version", out) IN
        /\ ceph_version' = <<gate>>
        /\ log' = Append(log, [check |-> "check_version", out |-> out, reached |-> 0])
        /\ IF GateStops(gate)
           THEN pc' = "done" /\ verdict' = <<gate>>
           ELSE pc' = "check_quorum" /\ verdict' = <<>>
    /\ aggregate' = EmptyResult
    /\ UNCHANGED <<scenario, treeVars, last, self_units, _ceph_mon_app_map,
                   _ceph_tree_map>>

\* action.entity_id of the get-quorum-status action run on the unit
ActionIdOf == [u \in MonUnits |->
    CASE u = "ceph-mon/0" -> "10" [] u = "ceph-mon/1" -> "11" [] OTHER -> "12"]

\* json.loads of the message: an object with monmap.mons and quorum_names
QuorumPayload(mons_json, mons, quorum_names_json, quorum_names) ==
    [kind |-> "status", mons_json |-> mons_json, mons |-> mons,
     quorum_names_json |-> quorum_names_json, quorum_names |-> quorum_names]

\* the status ceph reports: an array of monitors and an array of names
QuorumStatus(mons, quorum_names) ==
    QuorumPayload("array", mons, "array", quorum_names)

\* a message json.loads or the key lookups fail on
Malformed(kind) ==
    [kind |-> kind, mons_json |-> "null", mons |-> <<>>,
     quorum_names_json |-> "null", quorum_names |-> <<>>]

RunQuorumOutputs ==
    {QuorumStatus(<<"mon.0", "mon.1", "mon.2">>, <<"mon.0", "mon.1", "mon.2">>),
     QuorumStatus(<<"mon.0", "mon.1", "mon.2">>, <<"mon.0", "mon.1">>),
     Malformed("invalid"), Malformed("not an object")}

\* what run_action_on_all ends in: an exception, or an output of every unit
RunQuorumFetches ==
    {Raise("CharmException", "get-quorum-status")}
    \cup {Return([k \in DOMAIN self_units |->
                    [unit |-> self_units[k].entity_id,
                     action |-> ActionIdOf[self_units[k].entity_id],
                     output |-> outputs[k]]]) :
            outputs \in [DOMAIN self_units -> RunQuorumOutputs]}

\* CephMon.check_quorum, as invoked by checks_executor
MonCheckQuorum ==
    /\ scenario = "mon" /\ pc = "check_quorum"
    /\ \E fetched \in RunQuorumFetches :
        LET out == check_quorum(fetched, self_units) IN
        /\ aggregate' = ExecutorStep(aggregate, "check_quorum", out)
        /\ log' = Append(log, [check |-> "check_quorum", out |-> out, reached |-> 0])
    /\ pc' = "check_ceph_cluster_health"
    /\ UNCHANGED <<scenario, treeVars, last, self_units, _ceph_mon_app_map,
                   _ceph_tree_map, ceph_version, verdict>>

\* CephMon.check_ceph_cluster_health, as invoked by checks_executor, and the
\* return of line 595
MonCheckClusterHealth ==
    /\ scenario = "mon" /\ pc = "check_ceph_cluster_health"
    /\ \E fetched \in RunHealthFetches(UniqueAppUnits(self_units)) :
        LET out == check_cluster_health(fetched) IN
        /\ aggregate' = ExecutorStep(aggregate, "check_ceph_cluster_health", out)
        /\ log' = Append(log, [check |-> "check_ceph_cluster_health", out |-> out,
                               reached |-> Reached(fetched)])
        /\ verdict' = <<MonVerdict(ceph_version[1], aggregate')>>
    /\ pc' = "done"
    /\ UNCHANGED <<scenario, treeVars, last, self_units, _ceph_mon_app_map,
                   _ceph_tree_map, ceph_version>>

----------------------------------------------------------------------------
(* The inputs of check_quorum called alone: clusters of up to five monitors  *)
(* mon.0 .. mon.4, of which mon.0 .. mon.2 host the ceph-mon units.          *)

QuorumHosts == <<"mon.0", "mon.1", "mon.2", "mon.3", "mon.4">>

\* monmap.mons[*].name: five monitors, three, or one listed twice
KnownLists ==
    {QuorumHosts, <<"mon.0", "mon.1", "mon.2">>, <<"mon.0", "mon.0", "mon.1">>}

\* quorum_names: any of the monitors
OnlineLists ==
    {SelectSeq(QuorumHosts, LAMBDA h : h \in S) : S \in SUBSET Range(QuorumHosts)}

\* the messages json.loads or the key lookups of lines 535-537 fail on
MalformedKinds ==
    {"invalid", "no monmap", "no mons", "no name", "no quorum_names",
     "not an object"}

\* the characters of the string "mon.0"
CharsOfMon0 == <<"m", "o", "n", ".", "0">>

\* statuses whose mons or quorum_names is not an array: mons 5, null, {},
\* "", {"mon.0": 1}, "mon.0" with quorum_names ["mon.0"]; quorum_names 5,
\* null, "mon.0", {"mon.0": 1}, {}, "" with mons [{"name": "mon.0"}]
WrongShapes ==
    {QuorumPayload(j, <<>>, "array", <<"mon.0">>) :
        j \in {"number", "null", "object", "string"}}
    \cup {QuorumPayload("object", <<"mon.0">>, "array", <<"mon.0">>),
          QuorumPayload("string", CharsOfMon0, "array", <<"mon.0">>)}
    \cup {QuorumPayload("array", <<"mon.0">>, j, <<>>) :
            j \in {"number", "null", "object", "string"}}
    \cup {QuorumPayload("array", <<"mon.0">>, "string", CharsOfMon0),
          QuorumPayload("array", <<"mon.0">>, "object", <<"mon.0">>)}

QuorumOutputs ==
    {QuorumStatus(k, o) : k \in KnownLists, o \in OnlineLists}
    \cup {Malformed(kind) : kind \in MalformedKinds}
    \cup WrongShapes

FewQuorumOutputs ==
    {QuorumStatus(QuorumHosts, QuorumHosts),
     QuorumStatus(<<"mon.0", "mon.1", "mon.2">>, <<"mon.1", "mon.2">>),
     Malformed("invalid"), Malformed("not an object")}

\* run_action_on_all for the units: the first unit reports any of the
\* payloads, the other units a few of them
QuorumFetches(verified) ==
    {Raise("CharmException", "get-quorum-status")}
    \cup {Return([k \in DOMAIN verified |->
                    [unit |-> verified[k].entity_id,
                     action |-> ActionIdOf[verified[k].entity_id],
                     output |-> IF k = 1 THEN first ELSE others[k]]]) :
            first \in QuorumOutputs,
            others \in [DOMAIN verified -> FewQuorumOutputs]}

InitQuorum == scenario = "quorum" /\ NoTree /\ last = NoCall /\ NoRun

CallCheckQuorum ==
    /\ scenario = "quorum" /\ last.op = "none"
    /\ \E S \in SUBSET MonUnits :
        /\ Cardinality(S) <= MaxMonitors
        /\ \E fetched \in QuorumFetches(MonUnitsList(S)) :
            last' = [op |-> "check_quorum", args |-> <<fetched, MonUnitsList(S)>>,
                     out |-> check_quorum(fetched, MonUnitsList(S))]
    /\ UNCHANGED <<scenario, treeVars, runVars>>

----------------------------------------------------------------------------
(* The inputs of check_availability_zone called alone: the tree map of the   *)
(* applications of the verified units, and ancestor_node_type for the        *)
(* replication rules a verifier class may carry.                             *)

\* two units of ceph-osd on the machine host.0
SameMachine == [u \in Range(OsdUnitList) |->
    IF u = "ceph-osd-b/0" THEN "host.2" ELSE "host.0"]

\* self.units for the verified subset S, with unit.machine.hostname from `on`
UnitsOn(S, on) ==
    LET ids == SelectSeq(OsdUnitList, LAMBDA u : u \in S)
    IN [k \in DOMAIN ids |->
            [entity_id |-> ids[k], application |-> ApplicationOf[ids[k]],
             hostname |-> on[ids[k]]]]

\* ceph_tree_map for the applications of S: a tree per application, the dict
\* in either order
AvailTreeMaps(S) ==
    LET apps == {ApplicationOf[u] : u \in S}
    IN {[k \in DOMAIN order |->
            [app_name |-> order[k], nodes |-> trees[order[k]],
             name_map |-> BuildNameMap(trees[order[k]])]] :
            order \in {o \in SeqsUpTo(apps, 2) :
                        /\ Len(o) = Cardinality(apps)
                        /\ \A i, j \in DOMAIN o : o[i] = o[j] => i = j},
            trees \in [apps -> RunTrees \cup {OtherTypeIdsTree}]}

ReplicationRules == {"host", "rack", "root", "chassis", "region"}

InitAvailability == scenario = "availability" /\ NoTree /\ last = NoCall /\ NoRun

CallCheckAvailabilityZone ==
    /\ scenario = "availability" /\ last.op = "none"
    /\ \E S \in SUBSET Range(OsdUnitList), on \in {HostnameOf, SameMachine} :
        \E tree_map \in AvailTreeMaps(S) :
            last' = [op |-> "check_availability_zone",
                     args |-> <<tree_map, UnitsOn(S, on)>>,
                     out |-> check_availability_zone(tree_map, UnitsOn(S, on))]
    /\ UNCHANGED <<scenario, treeVars, runVars>>

CallAncestorNodeType ==
    /\ scenario = "availability" /\ last.op = "none"
    /\ \E replication_rule \in ReplicationRules :
        last' = [op |-> "ancestor_node_type", args |-> <<replication_rule>>,
                 out |-> Return(AncestorNodeTypeOf(replication_rule))]
    /\ UNCHANGED <<scenario, treeVars, runVars>>

----------------------------------------------------------------------------
(* _find_ancestor frame by frame, called alone or from the loop of lines     *)
(* 201-213 of can_remove_host_node.                                          *)

\* the node lists searched: forests of two and three levels above the hosts,
\* and a list in which rack.0 and rack.1 are each other's parent
SearchTrees ==
    RunTrees
    \cup {BuildNodes(Parents("root", "rack.0", "rack.0", "rack.1"),
                     Avails(1000, 1000, 1000)),
          BuildNodes(Parents("rack.1", "rack.0", "rack.0", "rack.1"),
                     Avails(1000, 1000, 1000))}

InitSearch ==
    /\ scenario = "search"
    /\ _nodes \in SearchTrees
    /\ _nodes_name_map = BuildNameMap(_nodes)
    /\ changed = FALSE
    /\ search = NoSearch
    /\ last = NoCall
    /\ NoRun

\* lines 191-199 of can_remove_host_node: an exception, or on to the loop
BeforeLoop(nodes, name_map, names, required_ancestor_type) ==
    IF ~SupportedAncestorType(required_ancestor_type)
    THEN Raise("ValueError", "is not supported")
    ELSE LET hosts == AllHosts(nodes, name_map, names) IN
         IF ~Returned(hosts) THEN hosts
         ELSE IF ~hosts.val[1]
         THEN Raise("ValueError", "working only for node type host")
         ELSE Return(TRUE)

\* the call has ended in `out`
Finished(out) == [search EXCEPT !.status = "returned", !.out = <<out>>]

\* line 202: node = self._get_node(name), for the first of the names
SearchFrom(state, names) ==
    LET node == _get_node(_nodes, _nodes_name_map, Head(names)).val IN
    [state EXCEPT !.status = "searching", !.todo = names, !.start = node,
                  !.node = node, !.steps = 0]

\* a call of _find_ancestor
SearchFindAncestor ==
    /\ scenario = "search" /\ search.status = "idle"
    /\ \E i \in DOMAIN _nodes, required_type \in RequestTypes :
        search' = [NoSearch EXCEPT !.op = "_find_ancestor", !.status = "searching",
                                   !.start = <<_nodes[i]>>, !.node = <<_nodes[i]>>,
                                   !.required_type = required_type]
    /\ UNCHANGED <<scenario, _nodes, _nodes_name_map, changed, last, runVars>>

\* a call of can_remove_host_node, up to the first search of its loop
SearchCanRemove ==
    /\ scenario = "search" /\ search.status = "idle"
    /\ \E names \in SeqsUpTo(RequestNames, MaxNames), required_type \in RequestTypes :
        LET before == BeforeLoop(_nodes, _nodes_name_map, names, required_type)
            called == [NoSearch EXCEPT !.op = "can_remove_host_node",
                                       !.names = names,
                                       !.required_type = required_type]
        IN search' =
            IF ~Returned(before)
            THEN [called EXCEPT !.status = "returned", !.out = <<before>>]
            ELSE IF names = <<>>
            THEN [called EXCEPT !.status = "returned",
                                !.out = <<Return(CheckGroups(<<>>))>>]
            ELSE SearchFrom(called, names)
    /\ UNCHANGED <<scenario, _nodes, _nodes_name_map, changed, last, runVars>>

\* one frame of _find_ancestor; when the search of a name has returned, the
\* loop of lines 201-213 goes on with the next name and, after the last,
\* lines 216-244 give the verdict
SearchStep ==
    /\ scenario = "search" /\ search.status = "searching"
    /\ LET frame == FindAncestorFrame(_nodes, search.node[1], search.required_type)
           steps == search.steps + (IF frame.node # <<>> THEN 1 ELSE 0)
           rest == Tail(search.todo)
       IN search' =
            IF frame.kind = "call"
            THEN IF search.steps >= RecursionLimit
                 THEN Finished(Raise("RecursionError",
                                     "maximum recursion depth exceeded"))
                 ELSE [search EXCEPT !.node = frame.node, !.steps = steps]
            ELSE IF search.op = "_find_ancestor"
            THEN [Finished(Return(frame.node)) EXCEPT !.steps = steps]
            ELSE IF frame.node = <<>>
            THEN Finished(Raise("ValueError", "ancestor could not be found"))
            ELSE LET amap == AppendDescendent(search.amap, frame.node[1],
                                              search.start[1])
                 IN IF rest = <<>>
                    THEN [Finished(Return(CheckGroups(amap))) EXCEPT
                            !.steps = steps, !.amap = amap, !.todo = rest]
                    ELSE SearchFrom([search EXCEPT !.amap = amap], rest)
    /\ UNCHANGED <<scenario, _nodes, _nodes_name_map, changed, last, runVars>>

NextSearch == SearchFindAncestor \/ SearchCanRemove \/ SearchStep

\* a call under way goes on: the interpreter runs the next frame
SearchSpec == InitSearch /\ [][NextSearch]_vars /\ WF_vars(SearchStep)

----------------------------------------------------------------------------
(* Reads of the memoised properties of one CephOsd verifier, in any order:   *)
(* at every read the environment holds what a build would deliver now.       *)

InitReads ==
    /\ scenario = "reads" /\ NoTree /\ last = NoCall
    /\ self_units \in {UnitsList(S) : S \in OsdUnitCases}
    /\ _ceph_mon_app_map = <<>> /\ _ceph_tree_map = <<>>
    /\ pc = "none"
    /\ ceph_version = <<>> /\ aggregate = EmptyResult /\ verdict = <<>> /\ log = <<>>

\* a read of self.ceph_mon_app_map
ReadCephMonAppMap ==
    /\ scenario = "reads" /\ Len(log) < MaxReads
    /\ \E built \in FreshMonAppMaps :
        LET read == ceph_mon_app_map(_ceph_mon_app_map, built) IN
        /\ log' = Append(log, [prop |-> "ceph_mon_app_map", out |-> read.out,
                               fetched_mon |-> BuildsMonAppMap(_ceph_mon_app_map),
                               built_trees |-> FALSE])
        /\ _ceph_mon_app_map' = read.mon_cache
    /\ UNCHANGED <<scenario, treeVars, last, self_units, _ceph_tree_map, pc,
                   ceph_version, aggregate, verdict>>

\* a read of self.ceph_tree_map
ReadCephTreeMap ==
    /\ scenario = "reads" /\ Len(log) < MaxReads
    /\ \E built \in FreshMonAppMaps, disk_output \in RunDiskOutputs :
        LET read == ceph_tree_map(_ceph_tree_map, _ceph_mon_app_map, built,
                                  disk_output)
        IN
        /\ log' = Append(log, [prop |-> "ceph_tree_map", out |-> read.out,
                               fetched_mon |-> /\ BuildsTreeMap(_ceph_tree_map)
                                               /\ BuildsMonAppMap(_ceph_mon_app_map),
                               built_trees |-> BuildsTreeMap(_ceph_tree_map)])
        /\ _ceph_mon_app_map' = read.mon_cache
        /\ _ceph_tree_map' = read.tree_cache
    /\ UNCHANGED <<scenario, treeVars, last, self_units, pc, ceph_version,
                   aggregate, verdict>>

----------------------------------------------------------------------------

Init ==
    \/ InitTree \/ InitHealth \/ InitReplication \/ InitOsd \/ InitMon
    \/ InitQuorum \/ InitAvailability \/ InitSearch \/ InitReads

Next ==
    \/ NodesPop
    \/ NodesDelFirst
    \/ NodesReverse
    \/ CallGetNode
    \/ CallFindAncestor
    \/ CallCanRemoveHostNode
    \/ CallCheckClusterHealth
    \/ CallCheckReplicationNumber
    \/ OsdCheckClusterHealth
    \/ OsdCheckReplicationNumber
    \/ OsdCheckAvailabilityZone
    \/ MonCheckVersion
    \/ MonCheckQuorum
    \/ MonCheckClusterHealth
    \/ CallCheckQuorum
    \/ CallCheckAvailabilityZone
    \/ CallAncestorNodeType
    \/ SearchFindAncestor
    \/ SearchCanRemove
    \/ SearchStep
    \/ ReadCephMonAppMap
    \/ ReadCephTreeMap

Spec == Init /\ [][Next]_vars

----------------------------------------------------------------------------
(* What the claims speak of, stated on the tree itself and not by the code's *)
(* scan: parents, the k-th ancestor, groups of hosts and their sums.         *)

\* the nodes that list `node` among their children
ParentsOf(nodes, node) ==
    {p \in Range(nodes) : node.id \in Range(p.children)}

\* ids and names are unique and every node has at most one parent, none of
\* them above itself
RECURSIVE Above(_, _, _)
Above(nodes, node, k) ==
    IF k = 0 THEN {}
    ELSE LET ps == ParentsOf(nodes, node)
         IN ps \cup UNION {Above(nodes, p, k - 1) : p \in ps}

IsForest(nodes) ==
    /\ \A i, j \in DOMAIN nodes :
        (nodes[i].id = nodes[j].id \/ nodes[i].name = nodes[j].name) => i = j
    /\ \A n \in Range(nodes) :
        /\ Cardinality(ParentsOf(nodes, n)) <= 1
        /\ n \notin Above(nodes, n, Len(nodes))

\* the ancestor k levels above `node` (k = 0: the node itself), <<>> if none
RECURSIVE Up(_, _, _)
Up(nodes, node, k) ==
    IF k = 0 THEN <<node>>
    ELSE LET below == Up(nodes, node, k - 1) IN
         IF below = <<>> \/ ParentsOf(nodes, below[1]) = {} THEN <<>>
         ELSE <<CHOOSE p \in ParentsOf(nodes, below[1]) : TRUE>>

\* the levels k >= 1 at which `node` has an ancestor of the type
LevelsOfType(nodes, node, type) ==
    {k \in 1..Len(nodes) :
        Up(nodes, node, k) # <<>> /\ Up(nodes, node, k)[1].type = type}

NearestAncestor(nodes, node, type) ==
    LET ks == LevelsOfType(nodes, node, type) IN
    IF ks = {} THEN <<>>
    ELSE Up(nodes, node, CHOOSE k \in ks : \A m \in ks : k <= m)

RECURSIVE SumKbUsed(_)
SumKbUsed(S) ==
    IF S = {} THEN 0
    ELSE LET n == CHOOSE n \in S : TRUE IN n.kb_used + SumKbUsed(S \ {n})

RECURSIVE SumKbAvail(_)
SumKbAvail(S) ==
    IF S = {} THEN 0
    ELSE LET n == CHOOSE n \in S : TRUE IN n.kb_avail + SumKbAvail(S \ {n})

\* the last call, when it is a call of can_remove_host_node
IsCanRemove == last.op = "can_remove_host_node"

ReqNames == last.args[1]

ReqType == last.args[2]

NineKinds ==
    {"root", "region", "datacenter", "room", "pod", "pdu", "row", "rack", "chassis"}

\* the name resolves, through the tree's lookup, to a node of kind host
ResolvesToHost(name) ==
    LET got == _get_node(_nodes, _nodes_name_map, name)
    IN Returned(got) /\ got.val[1].type = "host"

\* no node was built under that name
ResolvesToNothing(name) == \A i \in DOMAIN _nodes_name_map : i # name

HostNamed(name) == CHOOSE n \in Range(_nodes) : n.name = name

NoDuplicates(names) ==
    \A i, j \in DOMAIN names : names[i] = names[j] => i = j

\* the hosts of the request and the groups they fall into
ReqHosts == {HostNamed(ReqNames[i]) : i \in DOMAIN ReqNames}

ReqAncestors == {NearestAncestor(_nodes, h, ReqType) : h \in ReqHosts}

GroupOf(ancestor) ==
    {h \in ReqHosts : NearestAncestor(_nodes, h, ReqType) = ancestor}

GroupUnsafe(ancestor) ==
    ancestor[1].kb_avail - SumKbAvail(GroupOf(ancestor)) <= SumKbUsed(GroupOf(ancestor))

C1Case ==
    /\ IsCanRemove
    /\ ReqType \in NineKinds
    /\ NoDuplicates(ReqNames)
    /\ \A i \in DOMAIN ReqNames : ResolvesToHost(ReqNames[i])
    /\ <<>> \notin ReqAncestors

\* C1: for a supported kind and distinct host names that all have an ancestor
\* of that kind, can_remove_host_node returns a boolean; it is False iff some
\* group has ancestor.kb_avail - sum(kb_avail) <= sum(kb_used), True iff every
\* group passes; two hosts of kb_used 100 and kb_avail 400 are unsafe under an
\* ancestor of kb_avail 1000 and safe under one of 1001.
C1_CanRemoveIffEveryGroupPasses ==
    C1Case =>
        /\ Returned(last.out)
        /\ last.out.val[1] \in BOOLEAN
        /\ last.out.val[1] = FALSE <=> \E a \in ReqAncestors : GroupUnsafe(a)
        /\ last.out.val[1] = TRUE <=> \A a \in ReqAncestors : ~GroupUnsafe(a)
        /\ \A a \in ReqAncestors :
            (/\ Cardinality(ReqAncestors) = 1
             /\ Cardinality(ReqHosts) = 2
             /\ \A h \in ReqHosts : h.kb_used = 100 /\ h.kb_avail = 400)
            => /\ a[1].kb_avail = 1000 => last.out.val[1] = FALSE
               /\ a[1].kb_avail = 1001 => last.out.val[1] = TRUE

\* C1 witness: two groups, one of them unsafe and one safe, and the verdict
\* is unsafe
C1_Witness ==
    /\ C1Case
    /\ \E a, b \in ReqAncestors : GroupUnsafe(a) /\ ~GroupUnsafe(b)
    /\ last.out = Return(FALSE)

\* two hosts of 100/400 under one ancestor of kb_avail 1001 are safe
C1_WitnessSafeAt1001 ==
    /\ C1Case
    /\ ReqNames = <<"host.0", "host.1">>
    /\ ReqAncestors = {<<_nodes[1]>>} /\ _nodes[1].kb_avail = 1001
    /\ last.out = Return(TRUE)

\* a requested host without an ancestor of the required kind
OrphanRequested ==
    \E i \in DOMAIN ReqNames :
        /\ ResolvesToHost(ReqNames[i])
        /\ NearestAncestor(_nodes, HostNamed(ReqNames[i]), ReqType) = <<>>

\* C2 as claimed: whenever a requested host has no ancestor of the required
\* kind the call fails with ValueError, whatever the other names are.
C2_Original_OrphanGivesValueError ==
    (IsCanRemove /\ OrphanRequested) => last.out.exc = "ValueError"

\* C2 amended: whenever a requested host has no ancestor of the required kind
\* the call raises and returns neither True nor False; the exception is
\* ValueError unless a name of the request resolves to nothing, and is
\* ValueError or KeyError then.
C2_OrphanNeverGetsVerdict ==
    (IsCanRemove /\ OrphanRequested) =>
        /\ ~Returned(last.out)
        /\ last.out.val = <<>>
        /\ last.out.exc \in {"ValueError", "KeyError"}
        /\ last.out.exc = "KeyError" =>
            \E i \in DOMAIN ReqNames : ResolvesToNothing(ReqNames[i])
        /\ (\A i \in DOMAIN ReqNames : ResolvesToHost(ReqNames[i])) /\ ReqType \in NineKinds
            => last.out = Raise("ValueError", "ancestor could not be found")

\* C2 witness: an orphan host requested after a host whose group is unsafe
C2_Witness ==
    /\ IsCanRemove /\ OrphanRequested
    /\ Len(ReqNames) = 2
    /\ ResolvesToHost(ReqNames[1])
    /\ LET a == NearestAncestor(_nodes, HostNamed(ReqNames[1]), ReqType)
       IN a # <<>> /\ a[1].kb_avail - HostNamed(ReqNames[1]).kb_avail
                        <= HostNamed(ReqNames[1]).kb_used
    /\ last.out = Raise("ValueError", "ancestor could not be found")

\* the first name, in argument order, that does not resolve to a host
FirstNotHost ==
    CHOOSE i \in DOMAIN ReqNames :
        /\ ~ResolvesToHost(ReqNames[i])
        /\ \A j \in 1..(i - 1) : ResolvesToHost(ReqNames[j])

SomeNotHost == \E i \in DOMAIN ReqNames : ~ResolvesToHost(ReqNames[i])

\* C3 as claimed: the call fails with ValueError whenever at least one name
\* does not resolve to a node of kind host, a name that resolves to nothing
\* included.
C3_Original_NotHostGivesValueError ==
    (IsCanRemove /\ SomeNotHost) => last.out.exc = "ValueError"

\* C3 amended: whenever at least one name does not resolve to a node of kind
\* host the call gives no boolean verdict; for a supported kind it raises
\* KeyError when the first such name, in argument order, resolves to nothing
\* and ValueError when it resolves to a node that is no host.
C3_NotHostNeverGetsVerdict ==
    (IsCanRemove /\ SomeNotHost) =>
        /\ ~Returned(last.out)
        /\ last.out.val = <<>>
        /\ last.out.exc \in {"ValueError", "KeyError"}
        /\ ReqType \in NineKinds =>
            (last.out.exc = "KeyError" <=> ResolvesToNothing(ReqNames[FirstNotHost]))

\* C3 witness: a rack name before an unknown name gives ValueError, and
C3_Witness ==
    /\ IsCanRemove /\ ReqType \in NineKinds
    /\ ReqNames = <<"rack.0", "host.9">>
    /\ last.out = Raise("ValueError", "working only for node type host")

\* an unknown name before a rack name gives KeyError
C3_WitnessKeyError ==
    /\ IsCanRemove /\ ReqType \in NineKinds
    /\ ReqNames = <<"host.9", "rack.0">>
    /\ last.out = Raise("KeyError", "not found")

\* C4: for every required kind outside root .. chassis the call fails with
\* the ValueError of the argument check, also when the names are invalid.
C4_UnsupportedKindIsReportedFirst ==
    (IsCanRemove /\ ReqType \notin NineKinds) =>
        last.out = Raise("ValueError", "is not supported")

\* C4 witness: kind `host` with a name that resolves to nothing
C4_Witness ==
    /\ IsCanRemove /\ ReqType = "host"
    /\ \E i \in DOMAIN ReqNames : ResolvesToNothing(ReqNames[i])
    /\ last.out = Raise("ValueError", "is not supported")

IsFindAncestor == last.op = "_find_ancestor"

\* C5: on a forest _find_ancestor returns the nearest strict ancestor of the
\* type, None when there is none, and never the start node; on
\* root(-1) -> rack(-2) -> host(-4) -> osd(0) the host's root ancestor is the
\* root, its rack ancestor the rack, and the root has no root ancestor.
C5_FindAncestorIsNearestStrictAncestor ==
    (IsFindAncestor /\ IsForest(_nodes)) =>
        LET node == last.args[1]
            type == last.args[2]
            found == last.out.val[1]
        IN /\ found = NearestAncestor(_nodes, node, type)
           /\ found # <<node>>
           /\ found # <<>> =>
                /\ found[1].type = type
                /\ found[1] \in Above(_nodes, node, Len(_nodes))
           /\ (/\ node.id = -4
               /\ \E r, k \in Range(_nodes) :
                    /\ r.id = -1 /\ r.type = "root" /\ r.children = <<-2>>
                    /\ k.id = -2 /\ k.type = "rack" /\ k.children = <<-4>>)
              => /\ type = "root" => found[1].id = -1
                 /\ type = "rack" => found[1].id = -2
           /\ (node.type = "root" /\ type = "root") => found = <<>>

\* C5 witness: the root ancestor of host.0 is found two levels up, past a rack
C5_Witness ==
    /\ IsFindAncestor
    /\ last.args[1].name = "host.0" /\ last.args[2] = "root"
    /\ Up(_nodes, last.args[1], 1) # <<>> /\ Up(_nodes, last.args[1], 1)[1].type = "rack"
    /\ last.out.val[1] # <<>> /\ last.out.val[1][1].name = "root"

IsGetNode == last.op = "_get_node"

\* C6: _get_node returns a node of exactly the requested name when the tree
\* was built with one, fails with KeyError when it was built with none, and
\* never returns a node of another name: when the list was changed under the
\* tree it fails with ValueError instead.
C6_GetNodeIsExactMatch ==
    IsGetNode =>
        LET name == last.args[1] IN
        /\ Returned(last.out) =>
            /\ last.out.val[1].name = name
            /\ last.out.val[1] \in Range(_nodes)
        /\ last.out.exc = "KeyError" <=> ResolvesToNothing(name)
        /\ last.out.exc \in {"None", "KeyError", "ValueError"}
        /\ last.out.exc = "ValueError" => changed
        /\ (~changed /\ \E n \in Range(_nodes) : n.name = name) => Returned(last.out)
        /\ (~ResolvesToNothing(name) /\ ~Returned(last.out)) =>
            /\ last.out.exc = "ValueError"
            /\ \/ _nodes_name_map[name] >= Len(_nodes)
               \/ _nodes[_nodes_name_map[name] + 1].name # name

\* C6 witness: after `del nodes[0]` the index of host.0 holds host.1
C6_Witness ==
    /\ IsGetNode /\ changed
    /\ last.args[1] = "host.0"
    /\ _nodes[_nodes_name_map["host.0"] + 1].name = "host.1"
    /\ last.out = Raise("ValueError", "_nodes was changed")

\* every list the model builds or changes is a forest
TreeIsForest == scenario # "search" => IsForest(_nodes)

----------------------------------------------------------------------------
(* check_cluster_health *)

IsClusterHealth ==
    /\ last.op = "check_cluster_health"
    /\ Returned(last.args[1]) /\ Returned(last.out)

HealthActionMap == last.args[1].val[1]

HealthResult == last.out.val[1]

\* the partial a monitor's message calls for, taken on its own
ClassifiedAlone(unit, cluster_health) ==
    IF "HEALTH_OK" \in Range(cluster_health)
    THEN Partial("OK", Message("Ceph cluster is healthy", unit, <<>>, <<>>))
    ELSE IF "HEALTH_WARN" \in Range(cluster_health)
    THEN Partial("FAIL", Message("Ceph cluster is in a warning state", unit,
                                 cluster_health, <<>>))
    ELSE IF "HEALTH_ERR" \in Range(cluster_health)
    THEN Partial("FAIL", Message("Ceph cluster is unhealthy", unit,
                                 cluster_health, <<>>))
    ELSE Partial("FAIL", Message("Ceph cluster is in an unknown state", unit,
                                 cluster_health, <<>>))

\* C7 as claimed: every monitor's message is classified on its own: HEALTH_OK
\* gives an OK partial, HEALTH_WARN and HEALTH_ERR a FAIL partial with the
\* message, and only a message with none of the three is an unknown state.
C7_EveryMonitorClassifiedAlone ==
    (IsClusterHealth /\ HealthActionMap # <<>>) =>
        /\ Len(HealthResult) = Len(HealthActionMap)
        /\ \A i \in DOMAIN HealthActionMap :
            HealthResult[i] = ClassifiedAlone(HealthActionMap[i].unit,
                                              HealthActionMap[i].message)

\* what holds of the code instead: the first monitor, and every monitor
\* before the first one that fails, is classified on its own
C7_ClassifiedAloneUntilFirstFail ==
    (IsClusterHealth /\ HealthActionMap # <<>>) =>
        /\ Len(HealthResult) = Len(HealthActionMap)
        /\ \A i \in DOMAIN HealthActionMap :
            (\A j \in 1..(i - 1) : HealthResult[j].severity = "OK") =>
                HealthResult[i] = ClassifiedAlone(HealthActionMap[i].unit,
                                                  HealthActionMap[i].message)

----------------------------------------------------------------------------
(* check_replication_number *)

IsReplication == last.op = "check_replication_number"

ReplMonAppMap == last.args[1]

ReplUnits == last.args[2]

ReplModelUnits == last.args[3]

ReplPoolOutput == last.args[4]

ReplResult == last.out.val[1]

ReplApps == {ReplMonAppMap[i].app_name : i \in DOMAIN ReplMonAppMap}

\* the list-pools output of the application's ceph-mon unit
OutputOf(app) ==
    ReplPoolOutput[(CHOOSE e \in Range(ReplMonAppMap) : e.app_name = app).unit]

WellFormed(output) ==
    /\ output.kind = "list"
    /\ \A i \in DOMAIN output.pools : DOMAIN output.pools[i] = {"size", "min_size"}

HasPools(app) == WellFormed(OutputOf(app)) /\ OutputOf(app).pools # <<>>

HasNoPools(app) == OutputOf(app) = PoolList(<<>>)

\* the minimum over the pools of size - min_size
MarginOf(app) ==
    LET margins == {p.size - p.min_size : p \in Range(OutputOf(app).pools)}
    IN CHOOSE m \in margins : \A n \in margins : m <= n

ProposedOf(app) ==
    {u.entity_id : u \in {v \in Range(ReplUnits) : v.application = app}}

InactiveOf(app) ==
    {u.entity_id : u \in {v \in ReplModelUnits :
        v.application = app /\ v.workload_status # "active"}}

\* the partials of the result that name the application
PartialsNaming(app) ==
    {i \in DOMAIN ReplResult : ReplResult[i].message.subject = app}

\* C9: an application with pools gets a FAIL partial iff the proposed and the
\* inactive units, counted as one set, are more than the smallest
\* size - min_size of its pools.
C9_FailIffUnionExceedsMargin ==
    (IsReplication /\ Returned(last.out)) =>
        \A app \in ReplApps :
            HasPools(app) =>
                /\ Cardinality(PartialsNaming(app)) <= 1
                /\ \A i \in PartialsNaming(app) :
                    /\ ReplResult[i].severity = "FAIL"
                    /\ ReplResult[i].message.nums[1] = MarginOf(app)
                /\ PartialsNaming(app) # {} <=>
                    Cardinality(ProposedOf(app) \cup InactiveOf(app)) > MarginOf(app)

\* C9 witness: pools [{size 3, min_size 2}], one unit proposed and one other
\* unit inactive: unsafe
C9_Witness ==
    /\ IsReplication /\ Returned(last.out)
    /\ "ceph-osd" \in ReplApps
    /\ OutputOf("ceph-osd") = PoolList(<<[size |-> 3, min_size |-> 2]>>)
    /\ ProposedOf("ceph-osd") = {"ceph-osd/0"}
    /\ InactiveOf("ceph-osd") = {"ceph-osd/1"}
    /\ PartialsNaming("ceph-osd") # {}
    /\ ~success(ReplResult)

\* the same pools, the one proposed unit being the inactive one: safe
C9_WitnessCountedOnce ==
    /\ IsReplication /\ Returned(last.out)
    /\ ReplApps = {"ceph-osd"}
    /\ OutputOf("ceph-osd") = PoolList(<<[size |-> 3, min_size |-> 2]>>)
    /\ ProposedOf("ceph-osd") = {"ceph-osd/0"}
    /\ InactiveOf("ceph-osd") = {"ceph-osd/0"}
    /\ success(ReplResult)

NoAppHasPools == \A app \in ReplApps : HasNoPools(app)

\* C10 as claimed: when no affected application has any pool the Result of
\* check_replication_number carries no OK partial and no FAIL partial.
C10_Original_NoPoolsNoVerdict ==
    (IsReplication /\ Returned(last.out) /\ ReplApps # {} /\ NoAppHasPools) =>
        \A i \in DOMAIN ReplResult : ReplResult[i].severity \notin {"OK", "FAIL"}

\* C10 amended: an application without pools is skipped, no partial of the
\* Result names it; when no affected application has any pool the Result is
\* the single OK partial "Minimum replica number check passed." and carries
\* no FAIL partial.
C10_NoPoolsSkippedThenPassed ==
    (IsReplication /\ Returned(last.out)) =>
        /\ \A app \in ReplApps : HasNoPools(app) => PartialsNaming(app) = {}
        /\ NoAppHasPools =>
            /\ ReplResult = <<Partial("OK",
                    Message("Minimum replica number check passed.", "", <<>>, <<>>))>>
            /\ success(ReplResult)

\* C10 witness: two applications, neither with a pool, units of both proposed
C10_Witness ==
    /\ IsReplication /\ Returned(last.out)
    /\ ReplApps = {"ceph-osd", "ceph-osd-b"}
    /\ NoAppHasPools
    /\ InactiveOf("ceph-osd") # {}
    /\ Len(ReplResult) = 1 /\ ReplResult[1].severity = "OK"

----------------------------------------------------------------------------
(* No monitor delivers a health status *)

IsRun == scenario \in {"osd", "mon"}

RunDone == IsRun /\ pc = "done"

\* no check of the run obtained a health status of any monitor
NoMonitorReached == \A k \in DOMAIN log : log[k].reached = 0

\* a Result that is FAIL: it has partials and one of them is FAIL
IsFail(res) == NotEmpty(res) /\ ~success(res)
                /\ \E i \in DOMAIN res : res[i].severity = "FAIL"

ChecksOfLog == [k \in DOMAIN log |-> log[k].check]

\* C8: check_cluster_health of an empty action map returns a Result that is
\* FAIL, and a run of CephOsd.verify_reboot or CephMon.verify_reboot in which
\* no monitor delivered a health status ends in a Result that is FAIL, never
\* in an empty Result and never in an OK.
C8_NoMonitorReachedIsFail ==
    /\ (IsClusterHealth /\ HealthActionMap = <<>>) =>
            /\ Returned(last.out)
            /\ IsFail(HealthResult)
    /\ (RunDone /\ NoMonitorReached) =>
            /\ verdict # <<>>
            /\ IsFail(verdict[1])

\* C8 witness: a CephOsd run over one unit in which the ceph-mon unit was
\* found but delivered no status, the other two checks passing
C8_Witness ==
    /\ scenario = "osd" /\ pc = "done" /\ NoMonitorReached
    /\ Len(self_units) = 1
    /\ ChecksOfLog = <<"check_ceph_cluster_health", "check_replication_number",
                       "check_availability_zone">>
    /\ log[1].out = check_cluster_health(Return(<<>>))
    /\ Returned(log[2].out) /\ success(log[2].out.val[1])
    /\ Returned(log[3].out) /\ success(log[3].out.val[1])
    /\ IsFail(verdict[1])

\* a CephMon run that passed the version gate and the quorum check and got
\* no health status
C8_WitnessMon ==
    /\ scenario = "mon" /\ pc = "done" /\ NoMonitorReached
    /\ Len(self_units) = 1
    /\ ChecksOfLog = <<"check_version", "check_quorum", "check_ceph_cluster_health">>
    /\ success(ceph_version[1])
    /\ Returned(log[2].out) /\ success(log[2].out.val[1])
    /\ IsFail(verdict[1])

\* the direct call with the empty action map
C8_WitnessEmptyMap ==
    /\ IsClusterHealth /\ HealthActionMap = <<>>
    /\ IsFail(HealthResult)

----------------------------------------------------------------------------
(* check_quorum *)

IsQuorum == last.op = "check_quorum" /\ Returned(last.args[1])

QuorumActions == last.args[1].val[1]

QuorumRemoved == {last.args[2][k].hostname : k \in DOMAIN last.args[2]}

QuorumResult == last.out.val[1]

WellFormedStatus(output) ==
    /\ output.kind = "status"
    /\ output.mons_json = "array" /\ output.quorum_names_json = "array"

RemainingOnline(output) == Range(output.quorum_names) \ QuorumRemoved

\* the partials that report the loss of quorum for the unit
LossPartials(unit) ==
    {i \in DOMAIN QuorumResult :
        /\ QuorumResult[i].severity = "FAIL"
        /\ QuorumResult[i].message.text = "will lose ceph-mon quorum"
        /\ QuorumResult[i].message.subject = unit}

\* the partials that report a parse failure of the unit's action
ParsePartials(unit) ==
    {i \in DOMAIN QuorumResult :
        /\ QuorumResult[i].severity = "FAIL"
        /\ QuorumResult[i].message.text = "Failed to parse quorum status from action"
        /\ QuorumResult[i].message.subject = ActionIdOf[unit]}

QuorumVerdictsRight ==
    \A k \in DOMAIN QuorumActions :
        WellFormedStatus(QuorumActions[k].output) =>
            /\ Cardinality(LossPartials(QuorumActions[k].unit)) <= 1
            /\ LossPartials(QuorumActions[k].unit) # {} <=>
                Cardinality(RemainingOnline(QuorumActions[k].output))
                    <= Cardinality(Range(QuorumActions[k].output.mons)) \div 2

\* C11: for every unit with a well-formed status check_quorum adds a FAIL
\* partial iff |online - removed hostnames| <= |known| // 2.
C11_FailIffHalfOrLessRemain ==
    (IsQuorum /\ Returned(last.out)) => QuorumVerdictsRight

\* C11 witness: five known monitors, two remain online after the removal of
\* mon.0: unsafe
C11_Witness ==
    /\ IsQuorum /\ Returned(last.out)
    /\ Len(QuorumActions) = 1
    /\ QuorumActions[1].output = QuorumStatus(QuorumHosts, <<"mon.0", "mon.1", "mon.3">>)
    /\ QuorumRemoved = {"mon.0"}
    /\ LossPartials(QuorumActions[1].unit) # {}

\* five known monitors, three remain online: safe
C11_WitnessThreeRemain ==
    /\ IsQuorum /\ Returned(last.out)
    /\ Len(QuorumActions) = 1
    /\ QuorumActions[1].output =
            QuorumStatus(QuorumHosts, <<"mon.0", "mon.1", "mon.2", "mon.3">>)
    /\ QuorumRemoved = {"mon.0"}
    /\ success(QuorumResult)

\* the removed host is not online: the three online monitors remain
C11_WitnessRemovedNotOnline ==
    /\ IsQuorum /\ Returned(last.out)
    /\ Len(QuorumActions) = 1
    /\ QuorumActions[1].output = QuorumStatus(QuorumHosts, <<"mon.1", "mon.3", "mon.4">>)
    /\ QuorumRemoved = {"mon.0"}
    /\ success(QuorumResult)

\* C12 as claimed: for every malformed payload check_quorum adds a FAIL
\* partial describing the parse failure for that unit, does not raise, and
\* still evaluates the statuses of the remaining units.
C12_MalformedPayloadIsReported ==
    IsQuorum =>
        /\ Returned(last.out)
        /\ \A k \in DOMAIN QuorumActions :
            ~WellFormedStatus(QuorumActions[k].output) =>
                ParsePartials(QuorumActions[k].unit) # {}
        /\ QuorumVerdictsRight

DecodeOrKeyError(output) ==
    output.kind \in {"invalid", "no monmap", "no mons", "no name", "no quorum_names"}

\* a value of the wrong shape that cannot be iterated or subscripted
NotIterable(output) ==
    \/ output.kind = "not an object"
    \/ /\ output.kind = "status"
       /\ \/ output.mons_json \in {"number", "null"}
          \/ output.mons_json \in {"object", "string"} /\ output.mons # <<>>
          \/ output.quorum_names_json \in {"number", "null"}

\* a value of the wrong shape that can be iterated: a string or an object
\* where the array of names is expected, an empty one where the array of
\* monitors is expected
TakenAsStatus(output) ==
    /\ output.kind = "status" /\ ~WellFormedStatus(output) /\ ~NotIterable(output)

\* what holds of the code: payloads that are not JSON or lack a key are
\* reported and the loop goes on; a value of the wrong shape either ends the
\* check in a TypeError or is counted as if it were a status, without a
\* partial that reports a parse failure
C12_DecodeAndKeyErrorsAreReported ==
    IsQuorum =>
        IF \E k \in DOMAIN QuorumActions : NotIterable(QuorumActions[k].output)
        THEN last.out.exc = "TypeError"
        ELSE /\ Returned(last.out)
             /\ \A k \in DOMAIN QuorumActions :
                    /\ DecodeOrKeyError(QuorumActions[k].output) <=>
                            ParsePartials(QuorumActions[k].unit) # {}
                    /\ TakenAsStatus(QuorumActions[k].output) =>
                            (LossPartials(QuorumActions[k].unit) # {} <=>
                                Cardinality(RemainingOnline(QuorumActions[k].output)) = 0)
             /\ QuorumVerdictsRight

\* quorum_names is the string "mon.0": its five characters are taken as five
\* monitors online and the check passes
C12_StringTakenAsNames ==
    /\ IsQuorum /\ Returned(last.out)
    /\ Len(QuorumActions) = 1
    /\ QuorumActions[1].output =
            QuorumPayload("array", <<"mon.0">>, "string", CharsOfMon0)
    /\ QuorumRemoved = {"mon.0"}
    /\ success(QuorumResult)

\* a number where the object is expected: TypeError leaves check_quorum
C12_TypeErrorEscapes ==
    /\ IsQuorum /\ last.out.exc = "TypeError"
    /\ Len(QuorumActions) = 2
    /\ QuorumActions[1].output = Malformed("not an object")
    /\ WellFormedStatus(QuorumActions[2].output)

----------------------------------------------------------------------------
(* CephMon.verify_reboot *)

IsPrefix(s, t) == Len(s) <= Len(t) /\ \A k \in DOMAIN s : s[k] = t[k]

\* what the invocation recorded in the log entry adds to the aggregate
Contribution(entry) == ExecutorStep(EmptyResult, entry.check, entry.out)

MonChecks == <<"check_version", "check_quorum", "check_ceph_cluster_health">>

\* C13: CephMon.verify_reboot runs the version gate first; when the gate's
\* Result is not successful no other check is invoked and the gate's Result
\* is the verdict; otherwise the quorum check and then the health check are
\* invoked, each exactly once, and the verdict is the gate's Result combined
\* with theirs in that order.
C13_GateThenQuorumThenHealth ==
    scenario = "mon" =>
        /\ IsPrefix(ChecksOfLog, MonChecks)
        /\ verdict # <<>> <=> pc = "done"
        /\ pc = "done" =>
            IF ~success(Contribution(log[1]))
            THEN /\ ChecksOfLog = <<"check_version">>
                 /\ verdict = <<Contribution(log[1])>>
            ELSE /\ ChecksOfLog = MonChecks
                 /\ verdict = <<Combine(Contribution(log[1]),
                                 Combine(Contribution(log[2]), Contribution(log[3])))>>

\* C13 witness: the gate passed, the quorum check found a loss of quorum and
\* the health check a healthy cluster
C13_Witness ==
    /\ scenario = "mon" /\ pc = "done"
    /\ ChecksOfLog = MonChecks
    /\ success(Contribution(log[1]))
    /\ Returned(log[2].out) /\ ~success(log[2].out.val[1])
    /\ Returned(log[3].out) /\ success(log[3].out.val[1])
    /\ Len(verdict[1]) = 3

\* the gate failed: nothing else ran
C13_WitnessGateFailed ==
    /\ scenario = "mon" /\ pc = "done"
    /\ ChecksOfLog = <<"check_version">>
    /\ Returned(log[1].out) /\ ~success(log[1].out.val[1])
    /\ verdict = <<log[1].out.val[1]>>

----------------------------------------------------------------------------
(* CephOsd.verify_reboot *)

\* the aggregate after the invocations of the log: each Result added, each
\* exception turned into a FAIL partial
RECURSIVE FoldOfLog(_, _)
FoldOfLog(res, entries) ==
    IF entries = <<>> THEN res
    ELSE FoldOfLog(Combine(res, Contribution(Head(entries))), Tail(entries))

\* the FAIL partials of the Result that carry the check's name and the error
ErrorPartials(res, entry) ==
    {i \in DOMAIN res :
        /\ res[i].severity = "FAIL"
        /\ res[i].message.subject = entry.check
        /\ res[i].message.detail = <<entry.out.exc, entry.out.msg>>}

\* C14: CephOsd.verify_reboot invokes the health check, the replication
\* check and the capacity check each exactly once, in that order, whatever
\* the earlier ones ended in; a FAIL Result or an exception of a check is a
\* FAIL partial of the aggregate and the run always ends in a Result.
C14_EveryCheckRunsOnce ==
    scenario = "osd" =>
        /\ IsPrefix(ChecksOfLog, <<"check_ceph_cluster_health",
                                   "check_replication_number",
                                   "check_availability_zone">>)
        /\ pc = "done" <=> Len(log) = 3
        /\ verdict # <<>> <=> pc = "done"
        /\ aggregate = FoldOfLog(EmptyResult, log)
        /\ \A k \in DOMAIN log :
            /\ ~Returned(log[k].out) => ErrorPartials(aggregate, log[k]) # {}
            /\ (Returned(log[k].out) /\ ~success(log[k].out.val[1])) =>
                    ~success(aggregate)
        /\ pc = "done" => verdict = <<aggregate>>

\* C14 witness: the health check returned a FAIL, the pool list did not
\* parse, can_remove_host_node raised the ValueError of a host without root
C14_Witness ==
    /\ scenario = "osd" /\ pc = "done" /\ Len(log) = 3
    /\ Returned(log[1].out) /\ ~success(log[1].out.val[1])
    /\ log[2].out.exc = "JSONDecodeError"
    /\ log[3].out.exc = "ValueError"
    /\ Len(verdict[1]) >= 3

\* can_remove_host_node raised the KeyError of a hostname the tree lacks
C14_WitnessKeyError ==
    /\ scenario = "osd" /\ pc = "done" /\ Len(log) = 3
    /\ log[3].out.exc = "KeyError" /\ log[3].out.msg # "nodes"
    /\ ErrorPartials(verdict[1], log[3]) # {}

----------------------------------------------------------------------------
(* check_availability_zone *)

IsAvailability == last.op = "check_availability_zone"

AvailTreeMap == last.args[1]

AvailUnits == last.args[2]

AvailResult == last.out.val[1]

\* the verified units of the application, and their hostnames
AvailUnitsOf(app) == SelectSeq(AvailUnits, LAMBDA u : u.application = app)

AvailHostnamesOf(app) ==
    [k \in DOMAIN AvailUnitsOf(app) |-> AvailUnitsOf(app)[k].hostname]

AvailUnitIdsOf(app) ==
    [k \in DOMAIN AvailUnitsOf(app) |-> AvailUnitsOf(app)[k].entity_id]

\* the ancestor kind of the claim for the failure domain of the verifier
ClaimedKind(failure_domain) ==
    IF failure_domain = "host" THEN "root" ELSE failure_domain

\* the predicate of the tree map entry on the application's hostnames
PredicateOf(entry) ==
    can_remove_host_node(entry.nodes, entry.name_map,
                         AvailHostnamesOf(entry.app_name),
                         ClaimedKind(REPLICATION_RULE))

\* the FAIL partials that name the application's units and the entry's tree
UnsafePartials(entry) ==
    {i \in DOMAIN AvailResult :
        /\ AvailResult[i].severity = "FAIL"
        /\ AvailResult[i].message.detail = AvailUnitIdsOf(entry.app_name)
        /\ AvailResult[i].message.tree = TreeStr(entry.nodes)}

AllPredicatesTrue ==
    \A k \in DOMAIN AvailTreeMap : PredicateOf(AvailTreeMap[k]) = Return(TRUE)

\* C15: ancestor_node_type is `root` for the failure domain `host` and the
\* failure domain itself otherwise; check_availability_zone adds exactly one
\* FAIL partial, naming the units and the tree, for every application whose
\* can_remove_host_node is False, and returns an OK partial iff it is True
\* for every application.
C15_OneFailPerUnsafeApplication ==
    /\ last.op = "ancestor_node_type" =>
            last.out = Return(ClaimedKind(last.args[1]))
    /\ (IsAvailability /\ Returned(last.out)) =>
            /\ \A k \in DOMAIN AvailTreeMap :
                /\ Returned(PredicateOf(AvailTreeMap[k]))
                /\ Cardinality(UnsafePartials(AvailTreeMap[k])) =
                    IF PredicateOf(AvailTreeMap[k]) = Return(FALSE) THEN 1 ELSE 0
            /\ Len(AvailResult) =
                IF AllPredicatesTrue THEN 1
                ELSE Cardinality({k \in DOMAIN AvailTreeMap :
                                    PredicateOf(AvailTreeMap[k]) = Return(FALSE)})
            /\ (\E i \in DOMAIN AvailResult : AvailResult[i].severity = "OK")
                    <=> AllPredicatesTrue
    /\ (IsAvailability /\ ~Returned(last.out)) =>
            \E k \in DOMAIN AvailTreeMap : PredicateOf(AvailTreeMap[k]) = last.out

\* C15 witness: two applications, the hosts of ceph-osd cannot be removed
\* and the host of ceph-osd-b can
C15_Witness ==
    /\ IsAvailability /\ Returned(last.out)
    /\ Len(AvailTreeMap) = 2
    /\ \E k \in DOMAIN AvailTreeMap :
        /\ AvailTreeMap[k].app_name = "ceph-osd"
        /\ PredicateOf(AvailTreeMap[k]) = Return(FALSE)
        /\ UnsafePartials(AvailTreeMap[k]) # {}
    /\ \E k \in DOMAIN AvailTreeMap :
        /\ AvailTreeMap[k].app_name = "ceph-osd-b"
        /\ PredicateOf(AvailTreeMap[k]) = Return(TRUE)
    /\ Len(AvailResult) = 1

\* every application can lose its hosts: the OK partial
C15_WitnessPassed ==
    /\ IsAvailability /\ Returned(last.out)
    /\ Len(AvailTreeMap) = 2 /\ AllPredicatesTrue
    /\ AvailResult = <<Partial("OK",
            Message("Availability zone check passed.", "", <<>>, <<>>))>>

\* the FAIL partial of a tree whose root has type_id 11 and whose racks have
\* type_id -1 lists every node: the root first, the racks after the osd
C15_WitnessOtherTypeIds ==
    /\ IsAvailability /\ Returned(last.out)
    /\ Len(AvailTreeMap) = 1 /\ Len(AvailResult) = 1
    /\ AvailResult[1].severity = "FAIL"
    /\ AvailResult[1].message.tree =
            <<<<11, "root", -1>>, <<1, "host.2", -6>>, <<1, "host.1", -5>>,
              <<1, "host.0", -4>>, <<0, "osd.0", 0>>, <<-1, "rack.1", -3>>,
              <<-1, "rack.0", -2>>>>

\* a failure domain other than host is its own ancestor kind
C15_WitnessRack ==
    /\ last.op = "ancestor_node_type" /\ last.args = <<"rack">>
    /\ last.out = Return("rack")

----------------------------------------------------------------------------
(* Combining Results.  Result, its + and its == are defined in               *)
(* juju_verify/verifiers/result.py, which is not among the sources modelled  *)
(* here: EmptyResult and Combine follow the specification (a Result is the   *)
(* sequence of its partials, + concatenates).  That Result() is a left and   *)
(* a right identity of + is then <<>> \o x = x, true of every sequence       *)
(* whatever the verifiers do, so C16 is not stated as a theorem of this      *)
(* model.  Where the verifiers combine Results, the order of the partials    *)
(* in the verdict is stated by C13_GateThenQuorumThenHealth and              *)
(* C14_EveryCheckRunsOnce.                                                   *)

----------------------------------------------------------------------------
(* can_remove_host_node and the set of requested names *)

\* the verdict of the same tree and kind for other names
VerdictFor(names) ==
    can_remove_host_node(_nodes, _nodes_name_map, names, ReqType)

\* the requests that are the same names in another order
IsPermutation(names, other) ==
    /\ Len(names) = Len(other)
    /\ \A n \in Range(names) :
        Cardinality({i \in DOMAIN names : names[i] = n})
            = Cardinality({i \in DOMAIN other : other[i] = n})

\* C17 as claimed: the verdict depends only on the set of requested names: a
\* name passed more than once gives the same boolean as the name passed
\* once, and a permutation of the names gives the same boolean.
C17_VerdictDependsOnlyOnTheSet ==
    (IsCanRemove /\ ~changed /\ Returned(last.out)) =>
        \A other \in SeqsUpTo(RequestNames, MaxNames) :
            Range(other) = Range(ReqNames) => VerdictFor(other) = last.out

\* what holds of the code: the same names in another order give the same
\* outcome
C17_PermutationKeepsVerdict ==
    (IsCanRemove /\ ~changed /\ Returned(last.out)) =>
        \A other \in SeqsUpTo(RequestNames, MaxNames) :
            IsPermutation(ReqNames, other) => VerdictFor(other) = last.out

\* a host passed twice is refused where the host passed once is accepted
C17_TwiceRefusedOnceAccepted ==
    /\ IsCanRemove /\ ~changed
    /\ ReqNames = <<"host.0", "host.0">>
    /\ last.out = Return(FALSE)
    /\ VerdictFor(<<"host.0">>) = Return(TRUE)

----------------------------------------------------------------------------
(* The verdict of check_cluster_health and the order of the monitors *)

SaysOk(message) == "HEALTH_OK" \in Range(message)

\* the action maps with the same monitors and messages in any order
Reorderings(action_map) ==
    {am \in ActionMaps(Len(action_map)) : Range(am) = Range(action_map)}

\* the Result of the loop after the first k monitors
AfterMonitors(k) == HealthLoop(EmptyResult, SubSeq(HealthActionMap, 1, k))

\* C18: the Result of check_cluster_health is successful iff at least one
\* monitor reported and every reported status contains HEALTH_OK, in
\* whatever order the monitors are processed; once a status lacks HEALTH_OK
\* the Result is FAIL and stays FAIL.
C18_VerdictIgnoresOrder ==
    IsClusterHealth =>
        /\ success(HealthResult) <=>
            /\ HealthActionMap # <<>>
            /\ \A i \in DOMAIN HealthActionMap : SaysOk(HealthActionMap[i].message)
        /\ \A am \in Reorderings(HealthActionMap) :
            success(check_cluster_health(Return(am)).val[1]) = success(HealthResult)
        /\ \A i \in DOMAIN HealthActionMap :
            ~SaysOk(HealthActionMap[i].message) =>
                \A k \in i..Len(HealthActionMap) : ~success(AfterMonitors(k))

\* C18 witness: a healthy monitor after one in a warning state: FAIL, as in
\* the other order
C18_Witness ==
    /\ IsClusterHealth
    /\ Len(HealthActionMap) = 2
    /\ ~SaysOk(HealthActionMap[1].message) /\ SaysOk(HealthActionMap[2].message)
    /\ ~success(HealthResult)
    /\ ~success(check_cluster_health(
            Return(<<HealthActionMap[2], HealthActionMap[1]>>)).val[1])

\* every monitor says HEALTH_OK: successful
C18_WitnessAllOk ==
    /\ IsClusterHealth
    /\ Len(HealthActionMap) = 2
    /\ \A i \in DOMAIN HealthActionMap : SaysOk(HealthActionMap[i].message)
    /\ success(HealthResult)

----------------------------------------------------------------------------
(* Termination of _find_ancestor *)

IsSearch == scenario = "search" /\ search.status # "idle"

Searching == scenario = "search" /\ search.status = "searching"

SearchReturned == scenario = "search" /\ search.status = "returned"

\* the number of strict ancestors of the node the search started from
DepthOfStart == Cardinality(Above(_nodes, search.start[1], Len(_nodes)))

\* what the call computes, by the tree's own operators
SearchOutcome ==
    IF search.op = "_find_ancestor"
    THEN Return(_find_ancestor(_nodes, search.start[1], search.required_type))
    ELSE can_remove_host_node(_nodes, _nodes_name_map, search.names,
                              search.required_type)

SearchWithinDepth ==
    (IsSearch /\ IsForest(_nodes)) =>
        /\ search.status = "returned" => search.out[1].exc # "RecursionError"
        /\ search.start # <<>> => search.steps <= DepthOfStart
        /\ search.status = "returned" => search.out = <<SearchOutcome>>

\* C19: on a node list that is a forest _find_ancestor returns for every
\* start node and every kind after at most depth-many upward steps, and so
\* does every call of can_remove_host_node.
C19_SearchTerminatesOnForests ==
    /\ [](SearchWithinDepth)
    /\ (Searching /\ IsForest(_nodes)) ~> SearchReturned

\* C19 witness: _find_ancestor of osd.0 for the kind root returned the root
\* three steps up
C19_Witness ==
    /\ SearchReturned /\ IsForest(_nodes)
    /\ search.op = "_find_ancestor"
    /\ search.start[1].name = "osd.0" /\ search.required_type = "root"
    /\ search.steps = 3 /\ search.steps = DepthOfStart
    /\ search.out[1].val[1] # <<>> /\ search.out[1].val[1][1].name = "root"

\* can_remove_host_node returned a verdict after the searches of two hosts
C19_WitnessCanRemove ==
    /\ SearchReturned /\ IsForest(_nodes)
    /\ search.op = "can_remove_host_node"
    /\ Len(search.amap) = 1 /\ Len(search.amap[1].descendents) = 2
    /\ search.out = <<Return(FALSE)>>

\* where rack.0 and rack.1 are each other's parent the search ends in the
\* RecursionError of the interpreter
C19_WitnessCycle ==
    /\ SearchReturned /\ ~IsForest(_nodes)
    /\ search.out[1].exc = "RecursionError"

----------------------------------------------------------------------------
(* Memoisation of ceph_mon_app_map and ceph_tree_map *)

IsReads == scenario = "reads"

\* after a read that delivered a map no later read fetches the monitor
\* units, after a read that delivered the trees no later read builds them,
\* and a later read of the same property delivers the same map
ReadsMemoised ==
    IsReads =>
        \A i, j \in DOMAIN log :
            (i < j /\ Returned(log[i].out)) =>
                /\ ~log[j].fetched_mon
                /\ log[i].prop = "ceph_tree_map" => ~log[j].built_trees
                /\ log[j].prop = log[i].prop => log[j].out = log[i].out
                /\ log[j].prop = "ceph_mon_app_map" => Returned(log[j].out)

\* a map once stored is never replaced, in any run and any sequence of reads
CachesKept ==
    /\ _ceph_mon_app_map # <<>> => _ceph_mon_app_map' = _ceph_mon_app_map
    /\ _ceph_tree_map # <<>> => _ceph_tree_map' = _ceph_tree_map

\* C20: within one CephOsd verifier the monitor-unit map and the trees are
\* fetched and built at most once after the first successful build, also
\* when the built map is empty; every later read returns that same map.
C20_BuiltOnceThenSameMap ==
    /\ [](ReadsMemoised)
    /\ [][CachesKept]_vars

\* C20 witness: the trees were built at the first read; the later reads of
\* the two properties fetched nothing and the third delivered the same trees
C20_Witness ==
    /\ IsReads /\ Len(log) = 3
    /\ Len(self_units) = 2
    /\ log[1].prop = "ceph_tree_map" /\ Returned(log[1].out)
    /\ log[1].fetched_mon /\ log[1].built_trees
    /\ log[2].prop = "ceph_mon_app_map" /\ ~log[2].fetched_mon
    /\ log[3].prop = "ceph_tree_map" /\ ~log[3].built_trees
    /\ log[3].out = log[1].out

\* no unit is verified: the empty map is built once and read again
C20_WitnessEmptyMap ==
    /\ IsReads /\ Len(log) = 2
    /\ self_units = <<>>
    /\ log[1].prop = "ceph_mon_app_map" /\ log[1].out = Return(<<>>)
    /\ log[2].prop = "ceph_mon_app_map" /\ ~log[2].fetched_mon
    /\ log[2].out = Return(<<>>)

\* a build that failed is tried again at the next read
C20_WitnessRetry ==
    /\ IsReads /\ Len(log) = 2
    /\ log[1].prop = "ceph_tree_map" /\ ~Returned(log[1].out)
    /\ log[2].prop = "ceph_tree_map" /\ log[2].built_trees
    /\ Returned(log[2].out)

====
